---- MODULE Spec2Model ----
(***************************************************************************)
(* The document ingestion and extraction pipeline of polizalab-crm: one   *)
(* policy record of the Policies table, the ingest route, the extract     *)
(* worker, the parse worker and the reviewer PATCH. Every handler is split *)
(* at the store and service calls it makes, so that concurrent invocations *)
(* interleave exactly where the Lambda runtime lets them.                  *)
(***************************************************************************)
EXTENDS Integers, Sequences, FiniteSets, TLC

\* ------------------------------------------------------------------ bounds
NExtract == 2               \* extract worker invocations running at once
NParse == 2                 \* parse worker invocations running at once
NIngest == 2                \* ingest requests running at once
NLink == 2                  \* link_policy requests running at once

\* A behaviour is explored within one of two budgets. The pipeline run takes a
\* document through both workers and the reviewer with duplicate deliveries;
\* the retry run gives the extract worker enough deliveries and refused start
\* calls to use up the retry budget and go one past it.
PipelineIngests == 2        \* ingest calls
PipelineExtracts == 2       \* deliveries of work items, duplicates included
PipelineParses == 2         \* deliveries of notifications, duplicates included
PipelinePatches == 1        \* reviewer PATCH calls
PipelineJobs == 2           \* start calls the analysis service accepts
PipelineFailures == 1       \* start calls the analysis service refuses
RetryIngests == 1
RetryExtracts == 4
RetryParses == 1
RetryPatches == 0
RetryJobs == 1
RetryFailures == 4

\* The parse run starts from a document in PROCESSING with its job recorded and
\* delivers the completion notification of that one job, duplicates included,
\* while the reviewer and the CRM act on the record.
\* a failed document and the ingest requests that retry it at once:
RaceIngests == 3
RaceExtracts == 1
RaceFailures == 1
\* the pipeline with deletions and store errors:
FaultsIngests == 1
FaultsExtracts == 2
FaultsParses == 1
FaultsPatches == 1
FaultsJobs == 1
FaultsFailures == 1
\* the pipeline under fair delivery:
LiveIngests == 2            \* ingest requests
LiveFailures == 1           \* failed start calls
LiveFetchErrors == 1        \* failed fetches of a result
ParseDeliveries == 3        \* deliveries of the notification
ParsePatches == 1           \* reviewer PATCH calls
MaxUpserts == 3              \* upsert requests
MaxLinks == 3                \* link requests
MaxUnlinks == 1             \* client deletions that unlink the policy
MaxDeviations == 2          \* fields of an analysis that differ from a clean one

Budgets ==
  {[ingest |-> PipelineIngests, extract |-> PipelineExtracts,
    parse |-> PipelineParses, patch |-> PipelinePatches,
    jobs |-> PipelineJobs, failures |-> PipelineFailures],
   [ingest |-> RetryIngests, extract |-> RetryExtracts,
    parse |-> RetryParses, patch |-> RetryPatches,
    jobs |-> RetryJobs, failures |-> RetryFailures],
   [ingest |-> RaceIngests, extract |-> RaceExtracts,
    parse |-> 0, patch |-> 0, jobs |-> 0, failures |-> RaceFailures]}

\* ------------------------------------------------------- program constants
RetryBudget == 3

TerminalStatuses == {"EXTRACTED", "NEEDS_REVIEW", "VERIFIED"}

permanent_errors ==
  {"InvalidParameterException", "InvalidS3ObjectException",
   "UnsupportedDocumentException", "BadDocumentException"}

\* Error codes the analysis service answers a start call with in the model.
\* Error codes of a failed update_item.
StoreErrorCodes == {"ProvisionedThroughputExceededException"}

StartErrorCodes == {"ThrottlingException", "UnsupportedDocumentException"}

\* The target fields of the extractor, in the order of FIELD_PATTERNS.
FIELD_PATTERNS ==
  <<"policyNumber", "insuredName", "startDate", "endDate", "insurer",
    "premiumTotal", "currency">>

FieldNames == {FIELD_PATTERNS[k] : k \in 1..Len(FIELD_PATTERNS)}

\* The default of REQUIRED_FIELDS.
REQUIRED_FIELDS == <<"policyNumber", "insuredName", "startDate", "endDate">>

\* Confidences are counted in units of 0.00001, so that round(confidence, 4)
\* is a rounding to the nearest ten.
DefaultThreshold == 75000
FineThreshold == 75004
FullConfidence == 100000
Absent == -1

\* Values the CONFIDENCE_THRESHOLD environment variable takes in the model: the
\* default and one with a fifth decimal.
Thresholds == {DefaultThreshold, FineThreshold}

\* What the key-phrase and regular-expression paths find for a field in the
\* blocks of an analysis: nothing, or a value with this confidence.
ConfidenceLevels == {50000, 74996, 75004, 95000}

CleanMatch ==
  [f \in FieldNames |-> IF f = "currency" THEN Absent ELSE 95000]

Analyses ==
  {m \in [FieldNames -> ConfidenceLevels \cup {Absent}] :
     Cardinality({f \in FieldNames : m[f] # CleanMatch[f]}) <= MaxDeviations}

\* A started job: the Status of its completion notification and what its
\* blocks hold for each field.
FailedJob == [Status |-> "FAILED", match |-> [f \in FieldNames |-> Absent]]

SucceededJob(m) == [Status |-> "SUCCEEDED", match |-> m]

\* What a started job ends as in the pipeline and retry runs: a failed job, a
\* clean document, a document without endDate.
JobOutcomes ==
  {FailedJob, SucceededJob(CleanMatch),
   SucceededJob([CleanMatch EXCEPT !["endDate"] = Absent])}

\* What the one job of the parse run ends as.
ParseJobOutcomes == {FailedJob} \cup {SucceededJob(m) : m \in Analyses}

NoError == <<>>
NoJob == 0
NoFields == 0
ReviewerFields == -1
NoClient == ""
NoUser == ""

\* The callers of the API and the policy ids they name.
Users == {"owner", "other"}
PolicyIds == {"policy", "unknown"}
ClientIds == {"c1", "c2", "c3"}
NoConfidence == [f \in FieldNames |-> Absent]

VARIABLES
  doc,          \* the policy record: status, textractJobId, retryCount, lastError,
                \* fields (the job the extracted values come from),
                \* needsReviewFields, fieldConfidence, clientId
  published,    \* messages sent to the extract queue
  jobs,         \* jobs[j]: outcome of the j-th started analysis job
  ew,           \* extract worker invocations in flight
  pw,           \* parse worker invocations in flight
  ing,          \* ingest requests in flight
  budget,       \* deliveries, calls and service answers still to come
  counts,       \* refused start calls (and the transient ones among them),
                \* ingest writes that made the document UPLOADED and reviewer
                \* PATCH calls, so far
  last,         \* the latest store write and/or return of an invocation
  CONFIDENCE_THRESHOLD,  \* the environment of the parse worker
  clients,      \* the Clients table
  lk,           \* link_policy requests in flight
  call          \* the request and the answer of a call of a function or of
                \* a one-step handler

vars ==
  <<doc, published, jobs, ew, pw, ing, budget, counts, last,
    CONFIDENCE_THRESHOLD, clients, lk, call>>

\* The record post_upload_url creates: the Item of its put_item, with the
\* attributes later writes add still absent.
UploadItem(user_id, content_type, file_size) ==
  [status |-> "CREATED", textractJobId |-> NoJob, retryCount |-> 0,
   lastError |-> NoError, fields |-> NoFields, needsReviewFields |-> <<>>,
   fieldConfidence |-> NoConfidence, clientId |-> NoClient,
   tenantId |-> "default", policyId |-> "policy", userId |-> user_id,
   s3KeyOriginal |-> "original",
   contentType |-> content_type, fileSizeBytes |-> file_size,
   extracted |-> {}, verifiedByUserId |-> NoUser, exists |-> TRUE]

NewDocument == UploadItem("owner", "application/pdf", 1)

\* The Clients table has no item under a client id.
NoClientRecord ==
  [exists |-> FALSE, email |-> "", sourcePolicyId |-> "", policyCount |-> 0]

NoLeft == [clientId |-> NoClient, policyCount |-> 0]

IdleLink ==
  [pc |-> "idle", client |-> "c1", alone |-> FALSE, second |-> FALSE,
   prior |-> NoLeft]

NoCall == [fn |-> "none"]

\* The log entry of a step. The write part: who issued which update_item,
\* whether its condition let it apply, the status it found and left, the status
\* the invocation expected to find, the retryCount or job it concerns, the
\* extracted fields it found when it writes fields, the record as it was
\* before the write, the error code the write handles. The return part: the
\* invocation that ended, what it had loaded and what it did.
Quiet ==
  [by |-> "none", op |-> "none", applied |-> FALSE, setsStatus |-> FALSE,
   from |-> "CREATED", to |-> "CREATED", expected |-> "CREATED", n |-> 0,
   had |-> NoFields, before |-> NewDocument, code |-> "",
   req |-> [policy_id |-> "policy", user_id |-> "owner"],
   body |-> [set |-> {}, null |-> {}], job |-> NoJob,
   returned |-> FALSE, st |-> "CREATED", hadJob |-> FALSE, started |-> FALSE,
   wrote |-> FALSE, called |-> FALSE, raised |-> FALSE, resp |-> 0]

Write(by, op, applied, setsStatus, from, to, expected, n) ==
  [Quiet EXCEPT !.by = by, !.op = op, !.applied = applied,
                !.setsStatus = setsStatus, !.from = from, !.to = to,
                !.expected = expected, !.n = n, !.before = doc]

Return(entry, by, st, hadJob, started, wrote, called, raised, resp) ==
  [entry EXCEPT !.by = by, !.returned = TRUE, !.st = st, !.hadJob = hadJob,
                !.started = started, !.wrote = wrote, !.called = called,
                !.raised = raised, !.resp = resp]

IdleExtract ==
  [pc |-> "idle", st |-> "CREATED", rc |-> 0, hadJob |-> FALSE, job |-> NoJob,
   err |-> NoError]

IdleParse == [pc |-> "idle", st |-> "CREATED", job |-> NoJob, tag |-> "policy"]

IdleIngest == [pc |-> "idle", prev |-> "CREATED"]

\* Invocations are interchangeable: a delivery takes the first free one.
FirstIdle(w, i) == w[i].pc = "idle" /\ \A k \in 1..(i - 1) : w[k].pc # "idle"

Init ==
  /\ doc = NewDocument
  /\ published = 0
  /\ jobs = <<>>
  /\ ew = [e \in 1..NExtract |-> IdleExtract]
  /\ pw = [p \in 1..NParse |-> IdleParse]
  /\ ing = [i \in 1..NIngest |-> IdleIngest]
  /\ budget \in Budgets
  /\ counts = [startFailures |-> 0, transient |-> 0, applied |-> 0, patches |-> 0,
               unlinks |-> 0, links |-> 0, upserts |-> 0]
  /\ last = Quiet
  /\ CONFIDENCE_THRESHOLD = DefaultThreshold
  /\ clients = [c \in ClientIds |-> NoClientRecord]
  /\ lk = [k \in 1..NLink |-> IdleLink]
  /\ call = NoCall

\* ingest_route with every status but UPLOADED let through to the write.
ingest_route_any_status(st) == IF st = "UPLOADED" THEN 200 ELSE 0

\* ------------------------------------------------------------ post_ingest
\* The status checks after get_item: the response, or 0 to go on to the write.
ingest_route(st) ==
  IF st = "UPLOADED" THEN 200
  ELSE IF st \notin {"CREATED", "FAILED"} THEN 409
  ELSE 0

\* The first lines of a policy route: get_item, 404 without an item, 403 when
\* the item's userId is not the caller; 0 to go on.
authorize(found, owner, user_id) ==
  IF ~found THEN 404
  ELSE IF owner # user_id THEN 403
  ELSE 0

\* get_item and the checks before the conditional write.
ingest_load(i) ==
  /\ FirstIdle(ing, i)
  /\ budget.ingest > 0
  /\ budget' = [budget EXCEPT !.ingest = @ - 1]
  /\ \E policy_id \in PolicyIds, user_id \in Users :
       LET refused == authorize(doc.exists /\ policy_id = doc.policyId,
                               doc.userId, user_id)
           route == IF refused # 0 THEN refused ELSE ingest_route(doc.status)
       IN IF route = 0
            THEN /\ ing' = [ing EXCEPT ![i] = [pc |-> "cas", prev |-> doc.status]]
                 /\ UNCHANGED last
            ELSE /\ last' = [Return(Quiet, "ingest", doc.status, FALSE, FALSE,
                                    FALSE, FALSE, FALSE, route)
                               EXCEPT !.before = doc,
                                      !.req = [policy_id |-> policy_id,
                                               user_id |-> user_id]]
                 /\ UNCHANGED ing
  /\ UNCHANGED <<doc, published, jobs, ew, pw, counts, CONFIDENCE_THRESHOLD>>
  /\ UNCHANGED <<clients, lk, call>>

\* ingest_condition with the ConditionExpression left out.
ingest_condition_absent(stored, prev) == TRUE

\* The ConditionExpression of the ingest write: #status = :prev.
ingest_condition(stored, prev) == stored = prev

\* ingest_retry_count with a retry counted twice.
ingest_retry_count_by_two(prev, rc) == IF prev = "FAILED" THEN rc + 2 ELSE rc

\* The retryCount the ingest write leaves: retryCount + :one when the request
\* found the document FAILED, untouched otherwise.
ingest_retry_count(prev, rc) == IF prev = "FAILED" THEN rc + 1 ELSE rc

\* ingest_last_error with the error of the failed attempt kept.
ingest_last_error_kept(prev, err) == err

\* The lastError the ingest write leaves: :none when the request found the
\* document FAILED, untouched otherwise.
ingest_last_error(prev, err) == IF prev = "FAILED" THEN NoError ELSE err

\* update_item to UPLOADED; from FAILED it also bumps retryCount and clears
\* lastError. A failed condition is answered 200 without publishing.
ingest_cas(i) ==
  /\ ing[i].pc = "cas"
  /\ IF ingest_condition(doc.status, ing[i].prev)
       THEN /\ doc' = IF ing[i].prev = "FAILED"
                        THEN [doc EXCEPT !.status = "UPLOADED",
                                         !.retryCount =
                                           ingest_retry_count(ing[i].prev, @),
                                         !.lastError =
                                           ingest_last_error(ing[i].prev, @)]
                        ELSE [doc EXCEPT !.status = "UPLOADED"]
            /\ ing' = [ing EXCEPT ![i].pc = "send"]
            /\ counts' = [counts EXCEPT !.applied =
                 IF doc.status \in {"CREATED", "FAILED"} THEN @ + 1 ELSE @]
            /\ last' = Write("ingest", "ingest", TRUE, TRUE, doc.status,
                             "UPLOADED", ing[i].prev, 0)
       ELSE /\ ing' = [ing EXCEPT ![i] = IdleIngest]
            /\ last' = Return(Write("ingest", "ingest", FALSE, TRUE, doc.status,
                                    doc.status, ing[i].prev, 0),
                              "ingest", ing[i].prev, FALSE, FALSE, FALSE, FALSE,
                              FALSE, 200)
            /\ UNCHANGED <<doc, counts>>
  /\ UNCHANGED <<published, jobs, ew, pw, budget, CONFIDENCE_THRESHOLD>>
  /\ UNCHANGED <<clients, lk, call>>

\* send_message to the extract queue, then the 200 response.
ingest_send(i) ==
  /\ ing[i].pc = "send"
  /\ published' = published + 1
  /\ ing' = [ing EXCEPT ![i] = IdleIngest]
  /\ last' = Return(Quiet, "ingest", ing[i].prev, FALSE, FALSE, TRUE, TRUE,
                    FALSE, 200)
  /\ UNCHANGED <<doc, jobs, ew, pw, budget, counts, CONFIDENCE_THRESHOLD>>
  /\ UNCHANGED <<clients, lk, call>>

\* send_message raises: the handler answers 500 after the write to UPLOADED,
\* with nothing on the queue.
ingest_send_error(i) ==
  /\ ing[i].pc = "send"
  /\ ing' = [ing EXCEPT ![i] = IdleIngest]
  /\ last' = Return(Quiet, "ingest", ing[i].prev, FALSE, FALSE, TRUE, TRUE,
                    TRUE, 500)
  /\ UNCHANGED <<doc, published, jobs, ew, pw, budget, counts,
                 CONFIDENCE_THRESHOLD>>
  /\ UNCHANGED <<clients, lk, call>>

\* ------------------------------------------- extract worker: process_record
\* extract_route without the skip of PROCESSING with a recorded job.
extract_route_no_job_skip(st, hadJob) ==
  IF st \in {"EXTRACTED", "NEEDS_REVIEW", "VERIFIED"} THEN "done"
  ELSE IF st \notin {"UPLOADED", "PROCESSING"} THEN "done"
  ELSE IF st = "UPLOADED" THEN "cas"
  ELSE "start"

\* The early returns after get_item: where the invocation goes from the status
\* and textractJobId it loaded.
extract_route(st, hadJob) ==
  IF st \in {"EXTRACTED", "NEEDS_REVIEW", "VERIFIED"} THEN "done"
  ELSE IF st = "PROCESSING" /\ hadJob THEN "done"
  ELSE IF st \notin {"UPLOADED", "PROCESSING"} THEN "done"
  ELSE IF st = "UPLOADED" THEN "cas"
  ELSE "start"

\* gives_up with no retry at all.
gives_up_on_any_error(code, rc) == TRUE

\* gives_up with the permanent codes forgotten.
gives_up_on_budget_only(code, rc) == rc >= RetryBudget

\* gives_up with the budget test off by one.
gives_up_one_early(code, rc) == code \in permanent_errors \/ rc + 1 >= RetryBudget

\* A start failure ends the retries: a permanent code, or the loaded retryCount
\* at the budget.
gives_up(code, rc) == code \in permanent_errors \/ rc >= RetryBudget

\* A queued work item is delivered (again): get_item and the idempotency checks.
extract_load(e) ==
  /\ FirstIdle(ew, e)
  /\ published >= 1
  /\ budget.extract > 0
  /\ budget' = [budget EXCEPT !.extract = @ - 1]
  /\ LET hadJob == doc.textractJobId # NoJob
         pc == extract_route(doc.status, hadJob)
     IN IF pc = "done"
          THEN /\ last' = Return(Quiet, "extract", doc.status, hadJob, FALSE,
                                 FALSE, FALSE, FALSE, 0)
               /\ UNCHANGED ew
          ELSE /\ ew' = [ew EXCEPT ![e] =
                    [IdleExtract EXCEPT !.pc = pc, !.st = doc.status,
                                        !.rc = doc.retryCount, !.hadJob = hadJob]]
               /\ UNCHANGED last
  /\ UNCHANGED <<doc, published, jobs, pw, ing, counts, CONFIDENCE_THRESHOLD>>
  /\ UNCHANGED <<clients, lk, call>>

\* update_item UPLOADED -> PROCESSING with ConditionExpression #status = :uploaded;
\* a failed condition returns.
extract_cas(e) ==
  /\ ew[e].pc = "cas"
  /\ IF doc.status = "UPLOADED"
       THEN /\ doc' = [doc EXCEPT !.status = "PROCESSING"]
            /\ ew' = [ew EXCEPT ![e].pc = "start"]
            /\ last' = Write("extract", "processing", TRUE, TRUE, doc.status,
                             "PROCESSING", "UPLOADED", 0)
       ELSE /\ ew' = [ew EXCEPT ![e] = IdleExtract]
            /\ last' = Return(Write("extract", "processing", FALSE, TRUE,
                                    doc.status, doc.status, "UPLOADED", 0),
                              "extract", ew[e].st, ew[e].hadJob, FALSE, FALSE,
                              FALSE, FALSE, 0)
            /\ UNCHANGED doc
  /\ UNCHANGED <<published, jobs, pw, ing, budget, counts, CONFIDENCE_THRESHOLD>>
  /\ UNCHANGED <<clients, lk, call>>

\* start_document_analysis answers with a JobId.
extract_start_ok(e) ==
  /\ ew[e].pc = "start"
  /\ budget.jobs > 0
  /\ budget' = [budget EXCEPT !.jobs = @ - 1]
  /\ \E outcome \in JobOutcomes : jobs' = Append(jobs, outcome)
  /\ ew' = [ew EXCEPT ![e].pc = "record", ![e].job = Len(jobs) + 1]
  /\ UNCHANGED <<doc, published, pw, ing, counts, last, CONFIDENCE_THRESHOLD>>
  /\ UNCHANGED <<clients, lk, call>>

\* start_document_analysis raises ClientError; err is its code and message.
extract_start_error(e) ==
  /\ ew[e].pc = "start"
  /\ budget.failures > 0
  /\ budget' = [budget EXCEPT !.failures = @ - 1]
  /\ \E code \in StartErrorCodes :
       /\ ew' = [ew EXCEPT ![e].pc = "fail",
                           ![e].err = <<code, counts.startFailures + 1>>]
       /\ counts' = [counts EXCEPT
            !.startFailures = @ + 1,
            !.transient = IF code \in permanent_errors THEN @ ELSE @ + 1]
  /\ UNCHANGED <<doc, published, jobs, pw, ing, last, CONFIDENCE_THRESHOLD>>
  /\ UNCHANGED <<clients, lk, call>>

\* update_item SET textractJobId, processingStartedAt, s3KeyTextractResult.
extract_record(e) ==
  /\ ew[e].pc = "record"
  /\ doc' = [doc EXCEPT !.textractJobId = ew[e].job, !.exists = TRUE]
  /\ ew' = [ew EXCEPT ![e] = IdleExtract]
  /\ last' = Return(Write("extract", "record", TRUE, FALSE, doc.status,
                          doc.status, "PROCESSING", ew[e].job),
                    "extract", ew[e].st, ew[e].hadJob, TRUE, TRUE, TRUE, FALSE, 0)
  /\ UNCHANGED <<published, jobs, pw, ing, budget, counts, CONFIDENCE_THRESHOLD>>
  /\ UNCHANGED <<clients, lk, call>>

\* The update_item that records the job id raises ClientError: it is inside
\* the try block of the start call, so the same except clause handles it,
\* with the job already running.
extract_record_error(e) ==
  /\ ew[e].pc = "record"
  /\ budget.failures > 0
  /\ budget' = [budget EXCEPT !.failures = @ - 1]
  /\ \E code \in StoreErrorCodes :
       ew' = [ew EXCEPT ![e].pc = "fail", ![e].err = <<code, 0>>]
  /\ UNCHANGED <<doc, published, jobs, pw, ing, counts, last,
                 CONFIDENCE_THRESHOLD>>
  /\ UNCHANGED <<clients, lk, call>>

\* The except branch: FAILED and return, or UPLOADED, retryCount + 1 and raise.
extract_fail(e) ==
  /\ ew[e].pc = "fail"
  /\ IF gives_up(ew[e].err[1], ew[e].rc)
       THEN /\ doc' = [doc EXCEPT !.status = "FAILED", !.lastError = ew[e].err,
                                   !.exists = TRUE]
            /\ last' = Return([Write("extract", "failed", TRUE, TRUE, doc.status,
                                     "FAILED", "PROCESSING", doc.retryCount)
                                  EXCEPT !.code = ew[e].err[1],
                                         !.job = ew[e].job],
                              "extract", ew[e].st, ew[e].hadJob, TRUE, TRUE,
                              TRUE, FALSE, 0)
       ELSE IF doc.exists
         THEN /\ doc' = [doc EXCEPT !.status = "UPLOADED",
                                    !.retryCount = @ + 1]
              /\ last' = Return([Write("extract", "retry", TRUE, TRUE,
                                       doc.status, "UPLOADED", "PROCESSING",
                                       doc.retryCount)
                                    EXCEPT !.code = ew[e].err[1],
                                           !.job = ew[e].job],
                                "extract", ew[e].st, ew[e].hadJob, TRUE, TRUE,
                                TRUE, TRUE, 0)
         \* retryCount + :one has no operand without an item: the update
         \* raises and writes nothing
         ELSE /\ last' = Return([Write("extract", "retry", FALSE, TRUE,
                                       doc.status, doc.status, "PROCESSING", 0)
                                    EXCEPT !.code = ew[e].err[1],
                                           !.job = ew[e].job],
                                "extract", ew[e].st, ew[e].hadJob, TRUE, FALSE,
                                TRUE, TRUE, 0)
              /\ UNCHANGED doc
  /\ ew' = [ew EXCEPT ![e] = IdleExtract]
  /\ UNCHANGED <<published, jobs, pw, ing, budget, counts, CONFIDENCE_THRESHOLD>>
  /\ UNCHANGED <<clients, lk, call>>

\* ------------------------------------------------- extractor: extract_fields
\* round(confidence, 4).
Round4(c) == ((c + 5) \div 10) * 10

\* The confidence extract_fields ends with for a field: that of the match, or
\* 1.0 with the default of the field (currency), or none.
confidence(match, f) ==
  IF match[f] # Absent THEN match[f]
  ELSE IF f = "currency" THEN FullConfidence
  ELSE Absent

Range(s) == {s[k] : k \in 1..Len(s)}

RECURSIVE needs_review_deduped(_)
\* The deduplication that keeps the first occurrence of each field.
needs_review_deduped(s) ==
  IF s = <<>> THEN <<>>
  ELSE LET r == needs_review_deduped(SubSeq(s, 1, Len(s) - 1))
       IN IF s[Len(s)] \in Range(r) THEN r ELSE Append(r, s[Len(s)])

\* extract_fields without the check of the required fields.
extract_fields_no_required_check(match, threshold) ==
  [extracted |-> {f \in FieldNames : confidence(match, f) # Absent},
   fieldConfidence |->
     [f \in FieldNames |->
        IF confidence(match, f) = Absent THEN Absent
        ELSE Round4(confidence(match, f))],
   needsReviewFields |->
     needs_review_deduped(
       SelectSeq(FIELD_PATTERNS,
                 LAMBDA f : confidence(match, f) # Absent
                            /\ confidence(match, f) < threshold))]

\* The fields with a value, their rounded confidences, and the fields to
\* review: those found with a confidence below the threshold, in the order of
\* FIELD_PATTERNS, then the required fields without a value.
extract_fields(match, threshold) ==
  [extracted |-> {f \in FieldNames : confidence(match, f) # Absent},
   fieldConfidence |->
     [f \in FieldNames |->
        IF confidence(match, f) = Absent THEN Absent
        ELSE Round4(confidence(match, f))],
   needsReviewFields |->
     needs_review_deduped(
       SelectSeq(FIELD_PATTERNS,
                 LAMBDA f : confidence(match, f) # Absent
                            /\ confidence(match, f) < threshold)
       \o SelectSeq(REQUIRED_FIELDS,
                    LAMBDA f : confidence(match, f) = Absent))]

\* --------------------------------------------- parse worker: process_record
\* The final status: NEEDS_REVIEW when a required field has no value, when a
\* required field's stored confidence is below the threshold, or when the
\* extractor listed a field to review.
final_status(fields, threshold) ==
  LET missing_required ==
        {f \in Range(REQUIRED_FIELDS) : f \notin fields.extracted}
      low_confidence ==
        {f \in Range(REQUIRED_FIELDS) :
           /\ fields.fieldConfidence[f] # Absent
           /\ fields.fieldConfidence[f] < threshold}
  IN IF missing_required # {} \/ low_confidence # {}
        \/ fields.needsReviewFields # <<>>
       THEN "NEEDS_REVIEW"
       ELSE "EXTRACTED"

\* parse_route with the Status of the notification not looked at.
parse_route_failure_ignored(st, textract_status) ==
  IF st \in {"EXTRACTED", "NEEDS_REVIEW", "VERIFIED"} THEN "done" ELSE "final"

\* parse_route without the idempotency check.
parse_route_no_idempotency(st, textract_status) ==
  IF textract_status = "FAILED" THEN "fail" ELSE "final"

\* parse_route with VERIFIED missing from the terminal statuses.
parse_route_verified_missing(st, textract_status) ==
  IF st \in {"EXTRACTED", "NEEDS_REVIEW"} THEN "done"
  ELSE IF textract_status = "FAILED" THEN "fail"
  ELSE "final"

\* The JobTag of a notification: the policy id the extract worker passed, an
\* empty tag, the id of no record.
JobTags == {"policy", "", "unknown"}

\* parse_resolve with neither check.
parse_resolve_unchecked(job_tag, found) == "go"

\* The two returns before anything else is done: no policy id in the job tag,
\* no item under it.
parse_resolve(job_tag, found) ==
  IF job_tag = "" THEN "drop"
  ELSE IF ~found THEN "drop"
  ELSE "go"

\* The idempotency check and the Status of the notification after get_item.
parse_route(st, textract_status) ==
  IF st \in {"EXTRACTED", "NEEDS_REVIEW", "VERIFIED"} THEN "done"
  ELSE IF textract_status = "FAILED" THEN "fail"
  ELSE "final"

\* The completion notification of a started job is delivered (again): the
\* envelope is unwrapped and the record loaded; for a SUCCEEDED job of a
\* document not yet terminal, get_all_textract_blocks, put_object of the raw
\* result and extract_fields follow (they touch no state of the record).
parse_notification(p, tags) ==
  /\ FirstIdle(pw, p)
  /\ budget.parse > 0
  /\ budget' = [budget EXCEPT !.parse = @ - 1]
  /\ \E j \in 1..Len(jobs), job_tag \in tags :
       LET found == doc.exists /\ job_tag = doc.policyId
           pc == parse_route(doc.status, jobs[j].Status)
       IN IF parse_resolve(job_tag, found) = "drop"
            THEN /\ last' = [Return(Quiet, "parse", doc.status, FALSE, FALSE,
                                    FALSE, FALSE, FALSE, 0)
                               EXCEPT !.code = "drop", !.before = doc,
                                      !.req.policy_id = job_tag]
                 /\ UNCHANGED pw
          ELSE IF pc = "done"
            THEN /\ last' = Return(Quiet, "parse", doc.status,
                                   doc.textractJobId # NoJob, FALSE, FALSE,
                                   FALSE, FALSE, 0)
                 /\ UNCHANGED pw
            ELSE /\ pw' = [pw EXCEPT ![p] = [pc |-> pc, st |-> doc.status,
                                             job |-> j, tag |-> job_tag]]
                 /\ UNCHANGED last
  /\ UNCHANGED <<doc, published, jobs, ew, ing, counts, CONFIDENCE_THRESHOLD>>
  /\ UNCHANGED <<clients, lk, call>>

\* The notification the analysis service sends for a job of the document: its
\* JobTag is the policy id the extract worker passed.
parse_load(p) == parse_notification(p, {"policy"})

\* get_document_analysis raises ClientError: re-raised for the queue to retry.
parse_fetch_error(p) ==
  /\ pw[p].pc = "final"
  /\ pw' = [pw EXCEPT ![p] = IdleParse]
  /\ last' = Return(Quiet, "parse", pw[p].st, FALSE, FALSE, FALSE, TRUE, TRUE, 0)
  /\ UNCHANGED <<doc, published, jobs, ew, ing, budget, counts, CONFIDENCE_THRESHOLD>>
  /\ UNCHANGED <<clients, lk, call>>

\* Status FAILED: update_item SET status FAILED, lastError, processingEndedAt.
parse_fail(p) ==
  /\ pw[p].pc = "fail"
  /\ doc' = [doc EXCEPT !.status = "FAILED",
                        !.lastError = <<"StatusMessage", pw[p].job>>,
                        !.exists = TRUE]
  /\ pw' = [pw EXCEPT ![p] = IdleParse]
  /\ last' = Return([Write("parse", "failed", TRUE, TRUE, doc.status, "FAILED",
                           pw[p].st, pw[p].job)
                        EXCEPT !.had = doc.fields],
                    "parse", pw[p].st, FALSE, FALSE, TRUE, FALSE, FALSE, 0)
  /\ UNCHANGED <<published, jobs, ew, ing, budget, counts, CONFIDENCE_THRESHOLD>>
  /\ UNCHANGED <<clients, lk, call>>

\* The final update_item: status, the extracted fields, fieldConfidence,
\* needsReviewFields; it carries no ConditionExpression.
parse_final(p) ==
  /\ pw[p].pc = "final"
  /\ LET fields == extract_fields(jobs[pw[p].job].match, CONFIDENCE_THRESHOLD)
         status == final_status(fields, CONFIDENCE_THRESHOLD)
     IN /\ doc' = [doc EXCEPT !.status = status, !.fields = pw[p].job,
                              !.extracted = @ \cup fields.extracted,
                              !.needsReviewFields = fields.needsReviewFields,
                              !.fieldConfidence = fields.fieldConfidence,
                              !.exists = TRUE]
        /\ last' = Return([Write("parse", "final", TRUE, TRUE, doc.status,
                                 status, pw[p].st, pw[p].job)
                              EXCEPT !.had = doc.fields],
                          "parse", pw[p].st, FALSE, FALSE, TRUE, TRUE, FALSE, 0)
  /\ pw' = [pw EXCEPT ![p] = IdleParse]
  /\ UNCHANGED <<published, jobs, ew, ing, budget, counts, CONFIDENCE_THRESHOLD>>
  /\ UNCHANGED <<clients, lk, call>>

\* ----------------------------------------------------------- patch_policy
\* allowed_fields with the owner added.
allowed_fields_with_owner ==
  {"policyNumber", "insuredName", "startDate", "endDate", "insurer",
   "policyType", "premiumTotal", "currency", "rfc", "userId"}

\* The fields of the request body a PATCH copies into the record.
allowed_fields ==
  {"policyNumber", "insuredName", "startDate", "endDate", "insurer",
   "policyType", "premiumTotal", "currency", "rfc"}

\* Identity and source attributes a request body may name.
IdentityFields ==
  {"tenantId", "policyId", "userId", "s3KeyOriginal", "contentType",
   "fileSizeBytes"}

\* Request bodies of the PATCH in the model, as the fields given a value and
\* the fields given null: an empty body, an edited field, a cleared field, a
\* body that also names the identity and source attributes.
PatchBodies ==
  {[set |-> {}, null |-> {}],
   [set |-> {"policyNumber"}, null |-> {}],
   [set |-> {}, null |-> {"policyNumber"}],
   [set |-> {"insurer"} \cup IdentityFields, null |-> {}]}

\* The reviewer PATCH: update_item SET the edited fields, status VERIFIED.
patch_policy ==
  /\ budget.patch > 0
  /\ budget' = [budget EXCEPT !.patch = @ - 1]
  /\ \E policy_id \in PolicyIds, user_id \in Users, body \in PatchBodies :
       LET refused == authorize(doc.exists /\ policy_id = doc.policyId,
                               doc.userId, user_id)
           written == {f \in allowed_fields : f \in body.set \cup body.null}
           req == [policy_id |-> policy_id, user_id |-> user_id]
       IN IF refused # 0
            THEN /\ last' = [Return(Quiet, "patch", doc.status, FALSE, FALSE,
                                    FALSE, FALSE, FALSE, refused)
                               EXCEPT !.before = doc, !.req = req]
                 /\ UNCHANGED <<doc, counts>>
            ELSE /\ counts' = [counts EXCEPT !.patches = @ + 1]
                 /\ doc' =
                      [doc EXCEPT
                         !.status = "VERIFIED",
                         !.verifiedByUserId = user_id,
                         !.fields = IF written = {} THEN @ ELSE ReviewerFields,
                         !.extracted =
                           (@ \cup (written \cap body.set \cap FieldNames))
                             \ (written \cap body.null),
                         !.policyId =
                           IF "policyId" \in written THEN "patched" ELSE @,
                         !.userId =
                           IF "userId" \in written THEN "patched" ELSE @,
                         !.s3KeyOriginal =
                           IF "s3KeyOriginal" \in written THEN "patched" ELSE @,
                         !.contentType =
                           IF "contentType" \in written THEN "patched" ELSE @,
                         !.fileSizeBytes =
                           IF "fileSizeBytes" \in written THEN 0 ELSE @]
                 /\ last' = Return([Write("patch", "verified", TRUE, TRUE,
                                          doc.status, "VERIFIED", doc.status, 0)
                                       EXCEPT !.had = doc.fields, !.req = req,
                                              !.body = body],
                                   "patch", doc.status, FALSE, FALSE, TRUE,
                                   FALSE, FALSE, 200)
  /\ UNCHANGED <<published, jobs, ew, pw, ing, CONFIDENCE_THRESHOLD>>
  /\ UNCHANGED <<clients, lk, call>>

\* ------------------------------------------- client handler: the answers
\* What a link call leaves behind: the policy's clientId and the policyCount
\* of the client it names.
Left(client_id) ==
  [clientId |-> doc.clientId, policyCount |-> clients[client_id].policyCount]

\* The client the first upsert for the policy returned, carried from answer to
\* answer of the client handler; NoClient before any.
CallFirst ==
  IF call.fn \in {"link_policy", "upsert_client"} THEN call.first ELSE NoClient

\* ------------------------------------------ client handler: upsert_client
Emails == {"a@x", "b@x"}
SourcePolicyIds == {"", "policy"}

\* The client ids not yet in the table; uuid4 gives a fresh one.
FreeClientIds == {c \in ClientIds : ~clients[c].exists /\ clients[c].policyCount = 0}

\* _link_policy_to_client on the two tables.
linked_policy(client_id) == [doc EXCEPT !.clientId = client_id]
linked_clients(table, client_id) ==
  [table EXCEPT ![client_id].policyCount = @ + 1]

\* POST /clients/upsert: the idempotency query on sourcePolicyId, then
\* check_duplicates on the contact fields, then the create; the policy is
\* linked on the last two paths when sourcePolicyId is given.
upsert_client ==
  /\ counts.upserts < MaxUpserts
  /\ \A k \in 1..NLink : lk[k].pc = "idle"
  /\ counts' = [counts EXCEPT !.upserts = @ + 1]
  /\ \E email \in Emails, source_policy_id \in SourcePolicyIds :
       LET existing_by_source ==
             {c \in ClientIds : /\ clients[c].exists
                                /\ clients[c].sourcePolicyId = source_policy_id}
           dup == {c \in ClientIds : clients[c].exists /\ clients[c].email = email}
           answer(code, created, field, c) ==
             [fn |-> "upsert_client", resp |-> code, created |-> created,
              matched |-> field, client |-> c, source |-> source_policy_id,
              earlier |-> CallFirst,
              first |-> IF CallFirst # NoClient \/ source_policy_id = ""
                          THEN CallFirst ELSE c,
              before |-> [clients |-> clients, doc |-> doc],
              alone |-> FALSE, second |-> FALSE, prior |-> NoLeft,
              left |-> NoLeft]
       IN IF source_policy_id # "" /\ existing_by_source # {}
            THEN /\ call' = answer(200, FALSE, "sourcePolicyId",
                                   CHOOSE c \in existing_by_source : TRUE)
                 /\ UNCHANGED <<doc, clients>>
          ELSE IF dup # {}
            THEN LET c == CHOOSE d \in dup : TRUE
                 IN /\ call' = answer(200, FALSE, "email", c)
                    /\ IF source_policy_id # ""
                         THEN /\ doc' = linked_policy(c)
                              /\ clients' = linked_clients(clients, c)
                         ELSE UNCHANGED <<doc, clients>>
          ELSE /\ FreeClientIds # {}
               /\ LET c == CHOOSE d \in FreeClientIds : TRUE
                      item == [exists |-> TRUE, email |-> email,
                               sourcePolicyId |-> source_policy_id,
                               policyCount |->
                                 IF source_policy_id # "" THEN 1 ELSE 0]
                      put == [clients EXCEPT ![c] = item]
                  IN /\ call' = answer(201, TRUE, "", c)
                     /\ IF source_policy_id # ""
                          THEN /\ doc' = linked_policy(c)
                               /\ clients' = linked_clients(put, c)
                          ELSE /\ clients' = put
                               /\ UNCHANGED doc
  /\ UNCHANGED <<published, jobs, ew, pw, ing, budget, last, lk,
                 CONFIDENCE_THRESHOLD>>

\* ------------------------------------------- client handler: link_policy
\* link_already with the check taken out.
link_never_already(policy_client, client_id) == FALSE

\* "Idempotent: already linked".
link_already(policy_client, client_id) == policy_client = client_id

\* The answer of a link call.
LinkAnswer(client_id, code, alone, second, prior, left) ==
  [fn |-> "link_policy", resp |-> code, created |-> FALSE, matched |-> "",
   client |-> client_id, source |-> "", earlier |-> CallFirst,
   first |-> CallFirst, before |-> [clients |-> clients, doc |-> doc],
   alone |-> alone, second |-> second, prior |-> prior, left |-> left]

\* POST /clients/{clientId}/policies/{policyId}, up to the check that the
\* policy is already linked: the two get_item with their 404 and 403.  The
\* request is marked as a second call when it starts right after a call for
\* the same pair has answered 200, nothing else running meanwhile.
link_load(k) ==
  /\ FirstIdle(lk, k)
  /\ counts.links < MaxLinks
  /\ counts' = [counts EXCEPT !.links = @ + 1]
  /\ \E client_id \in ClientIds, user_id \in Users :
       LET alone == \A j \in 1..NLink : lk[j].pc = "idle"
           second == /\ alone
                     /\ call.fn = "link_policy"
                     /\ call.client = client_id
                     /\ call.resp = 200
                     /\ call.alone
                     /\ user_id = doc.userId
           prior == IF second THEN call.left ELSE NoLeft
           refused == IF ~clients[client_id].exists THEN 404
                      ELSE authorize(TRUE, doc.userId, user_id)
       IN IF refused # 0
            THEN /\ call' = LinkAnswer(client_id, refused, FALSE, FALSE,
                                       NoLeft, Left(client_id))
                 /\ UNCHANGED lk
          ELSE IF link_already(doc.clientId, client_id)
            THEN /\ call' = LinkAnswer(client_id, 200, alone, second, prior,
                                       Left(client_id))
                 /\ UNCHANGED lk
          ELSE /\ lk' = [j \in 1..NLink |->
                           IF j = k
                             THEN [pc |-> "set", client |-> client_id,
                                   alone |-> alone, second |-> second,
                                   prior |-> prior]
                             ELSE [lk[j] EXCEPT !.alone = FALSE]]
               /\ UNCHANGED call
  /\ UNCHANGED <<doc, clients, published, jobs, ew, pw, ing, budget, last,
                 CONFIDENCE_THRESHOLD>>

\* _link_policy_to_client, first update_item: SET clientId on the policy.
link_set(k) ==
  /\ lk[k].pc = "set"
  /\ doc' = linked_policy(lk[k].client)
  /\ lk' = [lk EXCEPT ![k].pc = "count"]
  /\ UNCHANGED <<clients, call, counts, published, jobs, ew, pw, ing, budget,
                 last, CONFIDENCE_THRESHOLD>>

\* _link_policy_to_client, second update_item: policyCount + 1 on the client
\* (on whatever item is under the key), and the 200.
link_count(k) ==
  /\ lk[k].pc = "count"
  /\ clients' = linked_clients(clients, lk[k].client)
  /\ lk' = [lk EXCEPT ![k] = IdleLink]
  /\ call' = LinkAnswer(lk[k].client, 200, lk[k].alone, lk[k].second,
                        lk[k].prior,
                        [clientId |-> doc.clientId,
                         policyCount |-> clients[lk[k].client].policyCount + 1])
  /\ UNCHANGED <<doc, counts, published, jobs, ew, pw, ing, budget, last,
                 CONFIDENCE_THRESHOLD>>

link_policy ==
  \E k \in 1..NLink : link_load(k) \/ link_set(k) \/ link_count(k)

\* ------------------------------------------ client handler: delete_client
\* DELETE /clients/{clientId}: every policy the query finds linked to the
\* client gets REMOVE clientId SET status NEEDS_REVIEW, then the client item
\* is deleted.
delete_client ==
  /\ counts.unlinks < MaxUnlinks
  /\ counts' = [counts EXCEPT !.unlinks = @ + 1]
  /\ \E client_id \in ClientIds :
       /\ clients[client_id].exists
       /\ clients' = [clients EXCEPT ![client_id] = NoClientRecord]
       /\ IF doc.clientId = client_id
            THEN /\ doc' = [doc EXCEPT !.clientId = NoClient,
                                       !.status = "NEEDS_REVIEW"]
                 /\ last' = Return(Write("unlink", "unlink", TRUE, TRUE,
                                         doc.status, "NEEDS_REVIEW",
                                         doc.status, 0),
                                   "unlink", doc.status, FALSE, FALSE, TRUE,
                                   FALSE, FALSE, 200)
            ELSE UNCHANGED <<doc, last>>
  /\ call' = [fn |-> "delete_client"]
  /\ lk' = [j \in 1..NLink |-> [lk[j] EXCEPT !.alone = FALSE]]
  /\ UNCHANGED <<published, jobs, ew, pw, ing, budget, CONFIDENCE_THRESHOLD>>

Next ==
  \/ \E i \in 1..NIngest : ingest_load(i)
  \/ \E i \in 1..NIngest : ingest_cas(i)
  \/ \E i \in 1..NIngest : ingest_send(i)
  \/ \E e \in 1..NExtract : extract_load(e)
  \/ \E e \in 1..NExtract : extract_cas(e)
  \/ \E e \in 1..NExtract : extract_start_ok(e)
  \/ \E e \in 1..NExtract : extract_start_error(e)
  \/ \E e \in 1..NExtract : extract_record(e)
  \/ \E e \in 1..NExtract : extract_fail(e)
  \/ \E p \in 1..NParse : parse_load(p)
  \/ \E p \in 1..NParse : parse_fetch_error(p)
  \/ \E p \in 1..NParse : parse_fail(p)
  \/ \E p \in 1..NParse : parse_final(p)
  \/ patch_policy

Spec == Init /\ [][Next]_vars

\* ------------------------------------------------------------ the parse run
\* The document is PROCESSING with the job of its one work item recorded; the
\* job's outcome and the threshold of the environment are any of the modelled
\* ones.
InitParse ==
  /\ published = 1
  /\ \E outcome \in ParseJobOutcomes : jobs = <<outcome>>
  /\ ew = [e \in 1..NExtract |-> IdleExtract]
  /\ pw = [p \in 1..NParse |-> IdleParse]
  /\ ing = [i \in 1..NIngest |-> IdleIngest]
  /\ budget = [ingest |-> 0, extract |-> 0, parse |-> ParseDeliveries,
               patch |-> ParsePatches, jobs |-> 0, failures |-> 0]
  /\ counts = [startFailures |-> 0, transient |-> 0, applied |-> 1, patches |-> 0,
               unlinks |-> 0, links |-> 0, upserts |-> 0]
  /\ last = Quiet
  /\ CONFIDENCE_THRESHOLD \in Thresholds
  /\ \E linked \in BOOLEAN :
       /\ doc = [NewDocument EXCEPT !.status = "PROCESSING",
                                    !.textractJobId = 1,
                                    !.clientId =
                                      IF linked THEN "c1" ELSE NoClient]
       /\ clients =
            [c \in ClientIds |->
               IF c = "c1"
                 THEN [exists |-> TRUE, email |-> "a@x", sourcePolicyId |-> "",
                       policyCount |-> IF linked THEN 1 ELSE 0]
                 ELSE NoClientRecord]
  /\ lk = [k \in 1..NLink |-> IdleLink]
  /\ call = NoCall

NextParse ==
  \/ \E p \in 1..NParse : parse_load(p)
  \/ \E p \in 1..NParse : parse_fetch_error(p)
  \/ \E p \in 1..NParse : parse_fail(p)
  \/ \E p \in 1..NParse : parse_final(p)
  \/ patch_policy
  \/ delete_client

SpecParse == InitParse /\ [][NextParse]_vars

\* --------------------------------------------- the client handler's routes
\* A stored policy and an empty Clients table; the requests of the client
\* handler in any order, the link requests step by step.
InitClient ==
  /\ doc \in {[NewDocument EXCEPT !.status = s] : s \in {"EXTRACTED", "VERIFIED"}}
  /\ published = 0
  /\ jobs = <<>>
  /\ ew = [e \in 1..NExtract |-> IdleExtract]
  /\ pw = [p \in 1..NParse |-> IdleParse]
  /\ ing = [i \in 1..NIngest |-> IdleIngest]
  /\ budget = [ingest |-> 0, extract |-> 0, parse |-> 0, patch |-> 0,
               jobs |-> 0, failures |-> 0]
  /\ counts = [startFailures |-> 0, transient |-> 0, applied |-> 0, patches |-> 0,
               unlinks |-> 0, links |-> 0, upserts |-> 0]
  /\ last = Quiet
  /\ CONFIDENCE_THRESHOLD = DefaultThreshold
  /\ clients = [c \in ClientIds |-> NoClientRecord]
  /\ lk = [k \in 1..NLink |-> IdleLink]
  /\ call = NoCall

NextClient ==
  \/ upsert_client
  \/ \E k \in 1..NLink : link_load(k)
  \/ \E k \in 1..NLink : link_set(k)
  \/ \E k \in 1..NLink : link_count(k)
  \/ delete_client

SpecClient == InitClient /\ [][NextClient]_vars

\* ------------------------------------- calculate_renewal_date, as a call
\* Python values of the two arguments: None, a string, a string that starts
\* with ten characters of the form YYYY-MM-DD.
None == [kind |-> "none"]
Str(s) == [kind |-> "str", s |-> s]
Iso(y, m, d) == [kind |-> "iso", y |-> y, m |-> m, d |-> d]

\* "not x" of Python for these values.
falsy(v) == v = None \/ v = Str("")

IsLeap(y) == (y % 4 = 0 /\ y % 100 # 0) \/ y % 400 = 0

days_in_month(y, m) ==
  IF m = 2 THEN (IF IsLeap(y) THEN 29 ELSE 28)
  ELSE IF m \in {4, 6, 9, 11} THEN 30
  ELSE 31

\* date.fromisoformat accepts the text: a day of the calendar.
is_date(v) ==
  /\ v.kind = "iso"
  /\ v.m \in 1..12
  /\ v.d \in 1..days_in_month(v.y, v.m)

\* d + relativedelta(months=12): the same month of the next year, the day
\* clipped to the length of that month.
plus_twelve_months(v) ==
  Iso(v.y + 1, v.m,
      IF v.d > days_in_month(v.y + 1, v.m)
        THEN days_in_month(v.y + 1, v.m) ELSE v.d)

calculate_renewal_date(policy_type, start_date) ==
  IF falsy(policy_type) \/ falsy(start_date) THEN None
  ELSE IF policy_type = Str("Vida permanente") THEN None
  ELSE IF is_date(start_date) THEN plus_twelve_months(start_date)
  ELSE None

PolicyTypes ==
  {None, Str(""), Str("Vida permanente"), Str("Auto"), Str("Vida temporal")}

StartDates ==
  {None, Str(""), Str("15/01/2024")}
    \cup {Iso(y, m, d) : y \in {2023, 2024}, m \in {1, 2, 4, 13},
                         d \in {0, 1, 28, 29, 30, 31}}

InitRenewal ==
  /\ doc = NewDocument
  /\ published = 0
  /\ jobs = <<>>
  /\ ew = [e \in 1..NExtract |-> IdleExtract]
  /\ pw = [p \in 1..NParse |-> IdleParse]
  /\ ing = [i \in 1..NIngest |-> IdleIngest]
  /\ budget = [ingest |-> 0, extract |-> 0, parse |-> 0, patch |-> 0,
               jobs |-> 0, failures |-> 0]
  /\ counts = [startFailures |-> 0, transient |-> 0, applied |-> 0, patches |-> 0,
               unlinks |-> 0, links |-> 0, upserts |-> 0]
  /\ last = Quiet
  /\ CONFIDENCE_THRESHOLD = DefaultThreshold
  /\ clients = [c \in ClientIds |-> NoClientRecord]
  /\ lk = [k \in 1..NLink |-> IdleLink]
  /\ \E policy_type \in PolicyTypes, start_date \in StartDates :
       call = [fn |-> "calculate_renewal_date", policy_type |-> policy_type,
               start_date |-> start_date, returned |-> FALSE, result |-> None]

\* The function is called and returns.
renewal_date_call ==
  /\ call.fn = "calculate_renewal_date"
  /\ ~call.returned
  /\ call' = [call EXCEPT
                !.returned = TRUE,
                !.result = calculate_renewal_date(call.policy_type,
                                                  call.start_date)]
  /\ UNCHANGED <<doc, published, jobs, ew, pw, ing, budget, counts, last,
                 CONFIDENCE_THRESHOLD, clients, lk>>

NextRenewal == renewal_date_call

SpecRenewal == InitRenewal /\ [][NextRenewal]_vars

\* ---------------------------------------------------------- post_upload_url
MAX_FILE_BYTES == 20971520

ALLOWED_CONTENT_TYPES == {"application/pdf", "image/png", "image/jpeg"}

\* The table has no item for the policy.
NoDocument == [NewDocument EXCEPT !.status = "ABSENT", !.userId = NoUser,
                                  !.contentType = "", !.fileSizeBytes = 0,
                                  !.exists = FALSE]

\* upload_error with the size not looked at.
upload_error_size_unchecked(content_type, file_size) ==
  IF content_type \notin ALLOWED_CONTENT_TYPES THEN 400 ELSE 0

\* The three checks before the record is written: 400, or 0 to go on.
upload_error(content_type, file_size) ==
  IF content_type \notin ALLOWED_CONTENT_TYPES THEN 400
  ELSE IF file_size > MAX_FILE_BYTES THEN 400
  ELSE IF file_size <= 0 THEN 400
  ELSE 0

\* body.get("contentType", "") and int(body.get("fileSizeBytes", 0)) of the
\* requests in the model.
UploadContentTypes ==
  ALLOWED_CONTENT_TYPES \cup {"", "image/gif", "text/plain"}

UploadSizes ==
  {-1, 0, 1, 1024, MAX_FILE_BYTES - 1, MAX_FILE_BYTES, MAX_FILE_BYTES + 1,
   2 * MAX_FILE_BYTES}

InitUpload ==
  /\ doc = NoDocument
  /\ published = 0
  /\ jobs = <<>>
  /\ ew = [e \in 1..NExtract |-> IdleExtract]
  /\ pw = [p \in 1..NParse |-> IdleParse]
  /\ ing = [i \in 1..NIngest |-> IdleIngest]
  /\ budget = [ingest |-> 0, extract |-> 0, parse |-> 0, patch |-> 0,
               jobs |-> 0, failures |-> 0]
  /\ counts = [startFailures |-> 0, transient |-> 0, applied |-> 0, patches |-> 0,
               unlinks |-> 0, links |-> 0, upserts |-> 0]
  /\ last = Quiet
  /\ CONFIDENCE_THRESHOLD = DefaultThreshold
  /\ clients = [c \in ClientIds |-> NoClientRecord]
  /\ lk = [k \in 1..NLink |-> IdleLink]
  /\ \E user_id \in Users, content_type \in UploadContentTypes,
        file_size \in UploadSizes :
       call = [fn |-> "post_upload_url", user_id |-> user_id,
               content_type |-> content_type, file_size |-> file_size,
               returned |-> FALSE, resp |-> 0, puts |-> 0]

\* POST /policies/upload-url: the checks, the put_item, the presigned URL.
post_upload_url ==
  /\ call.fn = "post_upload_url"
  /\ ~call.returned
  /\ IF upload_error(call.content_type, call.file_size) # 0
       THEN /\ call' = [call EXCEPT
                          !.returned = TRUE,
                          !.resp = upload_error(call.content_type,
                                                call.file_size)]
            /\ UNCHANGED doc
       ELSE /\ doc' = UploadItem(call.user_id, call.content_type,
                                 call.file_size)
            /\ call' = [call EXCEPT !.returned = TRUE, !.resp = 200,
                                    !.puts = @ + 1]
  /\ UNCHANGED <<published, jobs, ew, pw, ing, budget, counts, last,
                 CONFIDENCE_THRESHOLD, clients, lk>>

NextUpload == post_upload_url

SpecUpload == InitUpload /\ [][NextUpload]_vars

\* ------------------------------------------------------------ delete_policy
\* DELETE /policies/{policyId}: 404 and 403 as in the other routes, then the
\* objects and the item are deleted.
delete_policy ==
  /\ \E user_id \in Users :
       LET refused == authorize(doc.exists, doc.userId, user_id)
       IN IF refused # 0
            THEN /\ last' = [Return(Quiet, "delete", doc.status, FALSE, FALSE,
                                    FALSE, FALSE, FALSE, refused)
                               EXCEPT !.before = doc,
                                      !.req.user_id = user_id]
                 /\ UNCHANGED doc
            ELSE /\ doc' = NoDocument
                 /\ last' = Return(Write("delete", "delete", TRUE, TRUE,
                                         doc.status, "ABSENT", doc.status, 0),
                                   "delete", doc.status, FALSE, FALSE, TRUE,
                                   FALSE, FALSE, 200)
  /\ UNCHANGED <<published, jobs, ew, pw, ing, budget, counts,
                 CONFIDENCE_THRESHOLD, clients, lk, call>>

\* ------------------------------ the pipeline with deletions and store errors
\* The pipeline of Spec, with the record deleted at any moment, the write of
\* the job id failing, and notifications with any job tag.
InitFaults ==
  /\ doc = NewDocument
  /\ published = 0
  /\ jobs = <<>>
  /\ ew = [e \in 1..NExtract |-> IdleExtract]
  /\ pw = [p \in 1..NParse |-> IdleParse]
  /\ ing = [i \in 1..NIngest |-> IdleIngest]
  /\ budget = [ingest |-> FaultsIngests, extract |-> FaultsExtracts,
               parse |-> FaultsParses, patch |-> FaultsPatches,
               jobs |-> FaultsJobs, failures |-> FaultsFailures]
  /\ counts = [startFailures |-> 0, transient |-> 0, applied |-> 0, patches |-> 0,
               unlinks |-> 0, links |-> 0, upserts |-> 0]
  /\ last = Quiet
  /\ CONFIDENCE_THRESHOLD = DefaultThreshold
  /\ clients = [c \in ClientIds |-> NoClientRecord]
  /\ lk = [k \in 1..NLink |-> IdleLink]
  /\ call = NoCall

NextFaults ==
  \/ \E i \in 1..NIngest : ingest_load(i)
  \/ \E i \in 1..NIngest : ingest_cas(i)
  \/ \E i \in 1..NIngest : ingest_send(i)
  \/ \E e \in 1..NExtract : extract_load(e)
  \/ \E e \in 1..NExtract : extract_cas(e)
  \/ \E e \in 1..NExtract : extract_start_ok(e)
  \/ \E e \in 1..NExtract : extract_start_error(e)
  \/ \E e \in 1..NExtract : extract_record(e)
  \/ \E e \in 1..NExtract : extract_record_error(e)
  \/ \E e \in 1..NExtract : extract_fail(e)
  \/ \E p \in 1..NParse : parse_notification(p, JobTags)
  \/ \E p \in 1..NParse : parse_fetch_error(p)
  \/ \E p \in 1..NParse : parse_fail(p)
  \/ \E p \in 1..NParse : parse_final(p)
  \/ patch_policy
  \/ delete_policy

SpecFaults == InitFaults /\ [][NextFaults]_vars

\* ----------------------------------------- the pipeline under fair delivery
\* The queues deliver a work item or a notification that can advance the
\* document, one invocation of each worker at a time; external calls fail a
\* bounded number of times and succeed when tried again.
InitLive ==
  /\ doc = NewDocument
  /\ published = 0
  /\ jobs = <<>>
  /\ ew = [e \in 1..NExtract |-> IdleExtract]
  /\ pw = [p \in 1..NParse |-> IdleParse]
  /\ ing = [i \in 1..NIngest |-> IdleIngest]
  /\ budget = [ingest |-> LiveIngests, extract |-> LiveIngests + LiveFailures,
               parse |-> LiveIngests + LiveFailures + LiveFetchErrors,
               patch |-> 0, jobs |-> LiveIngests + LiveFailures,
               failures |-> LiveFailures]
  /\ counts = [startFailures |-> 0, transient |-> 0, applied |-> 0, patches |-> 0,
               unlinks |-> 0, links |-> 0, upserts |-> 0]
  /\ last = Quiet
  /\ CONFIDENCE_THRESHOLD = DefaultThreshold
  /\ clients = [c \in ClientIds |-> NoClientRecord]
  /\ lk = [k \in 1..NLink |-> IdleLink]
  /\ call = NoCall

\* The extract queue delivers the work item of an UPLOADED document.
extract_delivery(e) ==
  /\ doc.status = "UPLOADED"
  /\ \A k \in 1..NExtract : ew[k].pc = "idle"
  /\ extract_load(e)

\* The notification of the document's job is delivered.
parse_delivery(p) ==
  /\ doc.status = "PROCESSING"
  /\ doc.textractJobId # NoJob
  /\ \A k \in 1..NParse : pw[k].pc = "idle"
  /\ parse_load(p)
  /\ pw'[p].job = doc.textractJobId
  /\ pw'[p].tag = doc.policyId

\* Fetching the result fails while a redelivery is still to come.
parse_fetch_error_once(p) ==
  /\ budget.parse > budget.jobs
  /\ parse_fetch_error(p)

\* The steps that weak fairness drives: everything but a user's request and
\* the failures of external calls.
LiveSteps ==
  \/ \E i \in 1..NIngest : ingest_cas(i)
  \/ \E i \in 1..NIngest : ingest_send(i)
  \/ \E e \in 1..NExtract : extract_delivery(e)
  \/ \E e \in 1..NExtract : extract_cas(e)
  \/ \E e \in 1..NExtract : extract_start_ok(e)
  \/ \E e \in 1..NExtract : extract_record(e)
  \/ \E e \in 1..NExtract : extract_fail(e)
  \/ \E p \in 1..NParse : parse_delivery(p)
  \/ \E p \in 1..NParse : parse_fail(p)
  \/ \E p \in 1..NParse : parse_final(p)

NextLive ==
  \/ LiveSteps
  \/ \E i \in 1..NIngest : ingest_load(i)
  \/ \E i \in 1..NIngest : ingest_send_error(i)
  \/ \E e \in 1..NExtract : extract_start_error(e)
  \/ \E p \in 1..NParse : parse_fetch_error_once(p)

SpecLive == InitLive /\ [][NextLive]_vars /\ WF_vars(LiveSteps)

\* ------------------------------------------------------------------ claims
PipelineWriters == {"ingest", "extract", "parse"}
Workers == {"extract", "parse"}

\* The section 4.1 graph as the claim lists it.
GraphEdges ==
  {<<"CREATED", "UPLOADED">>, <<"FAILED", "UPLOADED">>,
   <<"UPLOADED", "PROCESSING">>, <<"UPLOADED", "UPLOADED">>,
   <<"UPLOADED", "FAILED">>, <<"PROCESSING", "FAILED">>,
   <<"PROCESSING", "EXTRACTED">>, <<"PROCESSING", "NEEDS_REVIEW">>}

\* Only the three pipeline components have written the record so far.
NoReviewerWrite == counts.patches = 0

\* The retry write as the store sees it: the worker has already written
\* PROCESSING when the start call fails, so its reset is PROCESSING -> UPLOADED.
RetryReset == last.op = "retry" /\ last.from = "PROCESSING" /\ last.to = "UPLOADED"

\* C1: every change of the document's status made by the ingest route, the
\* extract worker or the parse worker is an edge of the section 4.1 graph; no
\* write skips a state. (The retry reset is granted, so that what is refuted
\* is a skipped state and not the bookkeeping of the retry.)
C1_StatusChangesFollowGraph ==
  (NoReviewerWrite /\ last.applied /\ last.setsStatus /\ last.by \in PipelineWriters
     /\ last.from # last.to /\ ~RetryReset)
    => <<last.from, last.to>> \in GraphEdges

\* C1 as the claim lists the edges, the retry reset not granted.
C1_StatusChangesFollowGraphStrict ==
  (NoReviewerWrite /\ last.applied /\ last.setsStatus /\ last.by \in PipelineWriters
     /\ last.from # last.to)
    => <<last.from, last.to>> \in GraphEdges

\* C2: no state is regressed but for FAILED -> UPLOADED and the retry
\* bookkeeping; a document that is EXTRACTED, NEEDS_REVIEW or VERIFIED has
\* neither its status changed nor its extracted fields overwritten by a worker,
\* even by one that loaded it before it became terminal.
C2_TerminalNeverTouchedByWorkers ==
  (NoReviewerWrite /\ last.applied /\ last.by \in Workers /\ last.from \in TerminalStatuses)
    => (last.to = last.from /\ (last.op = "final" => doc.fields = last.had))

\* C3: every write that sets the status is guarded by the status the invocation
\* expects: it applies only when the stored status is the expected one, and
\* otherwise the invocation ends as a successful no-op.
C3_StatusWritesAreGuarded ==
  (last.setsStatus /\ last.by \in PipelineWriters)
    => /\ last.applied <=> (last.from = last.expected)
       /\ ~last.applied => (last.returned /\ ~last.raised)

\* C4: a document made ready once, with no start call refused, has at most one
\* analysis job started for it, however many deliveries its work item gets.
C4_AtMostOneJobPerReadiness ==
  (counts.applied = 1 /\ counts.startFailures = 0) => Len(jobs) <= 1

\* Ingest requests whose write made the document UPLOADED and that have not
\* sent their message yet.
\* The latest request named the stored policy and came from its owner.
OwnRequest == last.req = [policy_id |-> "policy", user_id |-> "owner"]

IngestsAboutToSend == {i \in 1..NIngest : ing[i].pc = "send"}

C6_RedeliveryAfterStartIsNoOp ==
  /\ \A e \in 1..NExtract :
       ew[e].pc # "idle" => ~(ew[e].st = "PROCESSING" /\ ew[e].hadJob)
  /\ (last.by = "extract" /\ last.returned /\ last.st = "PROCESSING"
        /\ last.hadJob)
       => (last.op = "none" /\ ~last.started /\ ~last.wrote /\ ~last.raised)

C6_Witness ==
  /\ last.by = "extract" /\ last.returned
  /\ last.st = "PROCESSING" /\ last.hadJob
  /\ doc.status = "PROCESSING" /\ doc.textractJobId = 1 /\ Len(jobs) = 1

\* C7: a work item delivered for a document whose stored status is PROCESSING
\* never leads to a start call, also when no textractJobId is recorded yet.
C7_ProcessingNeverStartsJob ==
  \A e \in 1..NExtract :
    ew[e].pc \in {"record", "fail"} => ew[e].st # "PROCESSING"

\* C8: a worker invocation that loads EXTRACTED, NEEDS_REVIEW or VERIFIED makes
\* no store write and no external call and returns normally.
C8_TerminalLoadIsNoOp ==
  /\ \A e \in 1..NExtract : ew[e].pc # "idle" => ew[e].st \notin TerminalStatuses
  /\ \A p \in 1..NParse : pw[p].pc # "idle" => pw[p].st \notin TerminalStatuses
  /\ (last.by \in Workers /\ last.returned /\ last.st \in TerminalStatuses)
       => (last.op = "none" /\ ~last.started /\ ~last.wrote /\ ~last.called
           /\ ~last.raised)

C8_Witness ==
  /\ last.by = "parse" /\ last.returned /\ last.st = "VERIFIED"
  /\ doc.status = "VERIFIED"

\* C9: once retryBudget transient start failures have been handled for a
\* document made ready once, the next start failure writes FAILED and returns
\* normally (never another retry), and an invocation that finds the document
\* FAILED makes no start attempt.
C9_BudgetExhaustedMeansFailed ==
  /\ (counts.applied <= 1 /\ last.by = "extract" /\ last.op = "retry")
       => last.n < RetryBudget
  /\ (last.by = "extract" /\ last.op = "failed") => (last.returned /\ ~last.raised)
  /\ \A e \in 1..NExtract : ew[e].pc # "idle" => ew[e].st # "FAILED"

\* Scenario F: k start calls were made for the document, every one was refused
\* with a transient error and every refusal has been handled; nothing else
\* (a second ingest, a started job, a reviewer's PATCH) has touched the record.
TransientErrorsOnly(k) ==
  /\ counts.startFailures = k /\ counts.transient = k
  /\ counts.applied = 1 /\ jobs = <<>> /\ NoReviewerWrite
  /\ \A e \in 1..NExtract : ew[e].pc # "fail"

\* C10 as stated: three consecutive transient start errors leave retryCount at
\* the cap, status FAILED and lastError the third error's message.
C10_ThreeTransientErrorsFail ==
  TransientErrorsOnly(3)
    => /\ doc.retryCount = RetryBudget
       /\ doc.status = "FAILED"
       /\ doc.lastError = <<"ThrottlingException", 3>>

\* C10 amended: three transient start errors leave retryCount at the cap with
\* the document still in the retry cycle (UPLOADED, or PROCESSING once
\* redelivered) and no lastError; it is the fourth, handled by an invocation
\* that gives up, that writes FAILED with lastError its own message and leaves
\* retryCount at the cap.
C10_FourthTransientErrorFails ==
  /\ TransientErrorsOnly(3)
       => /\ doc.retryCount = RetryBudget
          /\ doc.status \in {"UPLOADED", "PROCESSING"}
          /\ doc.lastError = NoError
  /\ (TransientErrorsOnly(4) /\ last.by = "extract" /\ last.op = "failed")
       => /\ doc.retryCount = RetryBudget
          /\ doc.status = "FAILED"
          /\ doc.lastError = <<"ThrottlingException", 4>>

C10_Witness ==
  /\ TransientErrorsOnly(4) /\ last.by = "extract" /\ last.op = "failed"
  /\ doc.status = "FAILED"

\* The extract worker has just handled a refused start call.
StartFailureHandled == last.by = "extract" /\ last.op \in {"retry", "failed"}

\* C11: a start call refused with a code outside the permanent set, for a
\* document whose retryCount is below the budget, is answered by a write of
\* status UPLOADED that adds exactly 1 to retryCount and leaves lastError as it
\* was, and the invocation re-raises.
C11_TransientFailureRetries ==
  (StartFailureHandled /\ last.code \notin permanent_errors
     /\ last.before.retryCount < RetryBudget)
    => /\ last.op = "retry"
       /\ doc.status = "UPLOADED"
       /\ doc.retryCount = last.before.retryCount + 1
       /\ doc.lastError = last.before.lastError
       /\ last.returned /\ last.raised

C11_Witness ==
  /\ StartFailureHandled /\ last.code = "ThrottlingException"
  /\ last.before.retryCount = RetryBudget - 1
  /\ doc.status = "UPLOADED" /\ doc.retryCount = RetryBudget /\ last.raised

\* C12: a start call refused with a permanent code is answered, whatever the
\* retryCount, by a write of status FAILED and lastError (the code and message
\* of this error) that leaves retryCount as it was, and the invocation returns
\* normally.
C12_PermanentFailureFailsAtOnce ==
  (StartFailureHandled /\ last.code \in permanent_errors)
    => /\ last.op = "failed"
       /\ doc.status = "FAILED"
       /\ doc.lastError # NoError /\ doc.lastError[1] = last.code
       /\ doc.retryCount = last.before.retryCount
       /\ last.returned /\ ~last.raised

\* Scenario E: the first start attempt is refused as an unsupported document.
C12_Witness ==
  /\ StartFailureHandled /\ last.code = "UnsupportedDocumentException"
  /\ counts.startFailures = 1 /\ last.before.retryCount = 0
  /\ doc.status = "FAILED" /\ doc.retryCount = 0

\* The latest write added exactly 1 to retryCount.
RetryCountBumped == doc.retryCount = last.before.retryCount + 1

\* C13 as stated: retryCount starts at 0 and a write either leaves it as it
\* was or is the extract worker's transient-failure write, which adds 1.
C13_RetryCountOnlyByTransientFailure ==
  /\ doc.status = "CREATED" => doc.retryCount = 0
  /\ last.op # "none"
       => \/ doc.retryCount = last.before.retryCount
          \/ RetryCountBumped /\ last.by = "extract" /\ last.op = "retry"

\* C13 amended: retryCount starts at 0 and a write either leaves it as it was
\* or adds exactly 1, and the writes that add 1 are the extract worker's
\* transient-failure write and the ingest write that retries a FAILED document.
C13_RetryCountByTransientFailureOrIngestRetry ==
  /\ doc.status = "CREATED" => doc.retryCount = 0
  /\ last.op # "none"
       => \/ doc.retryCount = last.before.retryCount
          \/ RetryCountBumped /\ last.by = "extract" /\ last.op = "retry"
          \/ RetryCountBumped /\ last.by = "ingest" /\ last.applied
               /\ last.expected = "FAILED"

C13_Witness ==
  /\ last.by = "ingest" /\ last.applied /\ last.expected = "FAILED"
  /\ RetryCountBumped /\ doc.status = "UPLOADED"

\* C14: the record holds a textractJobId exactly when its status is PROCESSING,
\* EXTRACTED, NEEDS_REVIEW or VERIFIED or a job was started for it; a document
\* is never PROCESSING without a recorded job.
C14_JobIdIffStatus ==
  NoReviewerWrite
    => /\ doc.status \in {"PROCESSING", "EXTRACTED", "NEEDS_REVIEW", "VERIFIED"}
            => doc.textractJobId # NoJob
       /\ doc.textractJobId # NoJob
            => (doc.status \in {"PROCESSING", "EXTRACTED", "NEEDS_REVIEW",
                                "VERIFIED"}
                \/ jobs # <<>>)

\* The parse worker has just made its final write.
Finalized == last.by = "parse" /\ last.op = "final"

\* C15: the final write of the parse worker stores EXTRACTED exactly when the
\* needsReviewFields it stores is empty, and NEEDS_REVIEW exactly when it is
\* not.
C15_ExtractedIffNothingToReview ==
  Finalized
    => /\ doc.status = "EXTRACTED" <=> doc.needsReviewFields = <<>>
       /\ doc.status = "NEEDS_REVIEW" <=> doc.needsReviewFields # <<>>

\* C16: whatever the parse worker, the reviewer and the client deletion have
\* written, a NEEDS_REVIEW document has fields to review and an EXTRACTED one
\* has none.
C16_ReviewFieldsMatchStatus ==
  /\ doc.status = "NEEDS_REVIEW" => doc.needsReviewFields # <<>>
  /\ doc.status = "EXTRACTED" => doc.needsReviewFields = <<>>

\* The analysis the latest final write was derived from.
FinalizedMatch == jobs[last.n].match

\* The required fields the analysis has no value for, and the fields it has a
\* value for with a confidence below the threshold.
MissingRequired ==
  {f \in Range(REQUIRED_FIELDS) : confidence(FinalizedMatch, f) = Absent}

BelowThreshold ==
  {f \in FieldNames :
     /\ confidence(FinalizedMatch, f) # Absent
     /\ confidence(FinalizedMatch, f) < CONFIDENCE_THRESHOLD}

\* C17: for a SUCCEEDED notification on a PROCESSING document the final write
\* sets EXTRACTED exactly when every required field has a value and every
\* field with a value has a confidence at or above the threshold (the pattern
\* extractor flags no other field); in every other case it sets NEEDS_REVIEW.
C17_ExtractedExactlyWhenClean ==
  (Finalized /\ last.st = "PROCESSING")
    => /\ doc.status = "EXTRACTED"
            <=> (MissingRequired = {} /\ BelowThreshold = {})
       /\ doc.status \in {"EXTRACTED", "NEEDS_REVIEW"}

\* C18: the needsReviewFields the final write stores is the union of the
\* required fields without a value and the fields found below the threshold
\* (the fields the pattern extractor flags are these), each listed once.
C18_ReviewFieldsAreTheUnion ==
  Finalized
    => /\ Range(doc.needsReviewFields) = MissingRequired \cup BelowThreshold
       /\ Len(doc.needsReviewFields) = Cardinality(Range(doc.needsReviewFields))

\* Scenario D: the analysis is clean but for endDate, which it does not hold.
C18_Witness ==
  /\ Finalized
  /\ FinalizedMatch = [CleanMatch EXCEPT !["endDate"] = Absent]
  /\ doc.status = "NEEDS_REVIEW" /\ doc.needsReviewFields = <<"endDate">>

\* C19: an invocation that loaded a non-terminal document for a notification
\* with Status FAILED fetches, archives and extracts nothing: its one write
\* sets status FAILED and lastError (the StatusMessage) and touches no
\* extracted field, and it returns normally.
C19_FailedNotificationMarksFailed ==
  /\ \A p \in 1..NParse :
       (pw[p].pc # "idle" /\ jobs[pw[p].job].Status = "FAILED")
         => pw[p].pc = "fail"
  /\ (last.by = "parse" /\ last.op = "failed")
       => /\ last.st \notin TerminalStatuses
          /\ jobs[last.n].Status = "FAILED"
          /\ doc.status = "FAILED"
          /\ doc.lastError = <<"StatusMessage", last.n>>
          /\ doc.fields = last.before.fields
          /\ doc.needsReviewFields = last.before.needsReviewFields
          /\ doc.fieldConfidence = last.before.fieldConfidence
          /\ last.returned /\ ~last.called /\ ~last.raised

C19_Witness ==
  /\ last.by = "parse" /\ last.op = "failed" /\ last.from = "PROCESSING"
  /\ doc.status = "FAILED" /\ doc.lastError = <<"StatusMessage", 1>>

\* Only the parse worker has written the status of the record so far.
NoOtherWriter == counts.patches = 0 /\ counts.unlinks = 0

C21_ConfidenceOnlyForStoredValues ==
  \A f \in FieldNames :
    doc.fieldConfidence[f] # Absent
      => /\ doc.fieldConfidence[f] >= 0
         /\ doc.fieldConfidence[f] <= FullConfidence
         /\ f \in doc.extracted

\* C22: the renewal date is null for the permanent-life type; for any other
\* policy type, an absent one included, it is the start date plus 12 months,
\* and null when the start date is absent or cannot be parsed.
C22_RenewalDateOfEveryInput ==
  (call.fn = "calculate_renewal_date" /\ call.returned)
    => call.result =
         IF call.policy_type = Str("Vida permanente") THEN None
         ELSE IF is_date(call.start_date)
           THEN plus_twelve_months(call.start_date)
         ELSE None

IngestAnsweredAtLoad ==
  last.by = "ingest" /\ last.returned /\ last.op = "none" /\ ~last.called

\* C24: an ingest request for an unknown document is answered 404, one from
\* a caller who is not the owner 403, one that finds PROCESSING, EXTRACTED,
\* NEEDS_REVIEW or VERIFIED 409; each leaves the document as it was and
\* publishes nothing, and only a request that found CREATED or FAILED goes on
\* to the write.
C24_RefusedIngestChangesNothing ==
  /\ IngestAnsweredAtLoad
       => /\ last.req.policy_id # last.before.policyId => last.resp = 404
          /\ (last.req.policy_id = last.before.policyId
                /\ last.req.user_id # last.before.userId) => last.resp = 403
          /\ (OwnRequest
                /\ last.st \in {"PROCESSING", "EXTRACTED", "NEEDS_REVIEW",
                                "VERIFIED"}) => last.resp = 409
          /\ last.resp \in {404, 403, 409}
               => (doc = last.before /\ ~last.wrote /\ ~last.called)
  /\ \A i \in 1..NIngest :
       ing[i].pc # "idle" => ing[i].prev \in {"CREATED", "FAILED"}

\* The owner's ingest request found the document PROCESSING and was answered
\* 409.
C24_Witness ==
  /\ IngestAnsweredAtLoad /\ OwnRequest
  /\ last.st = "PROCESSING" /\ last.resp = 409 /\ doc.status = "PROCESSING"

\* C25: a PATCH that writes found the document NEEDS_REVIEW, and its write
\* sets VERIFIED together with the verifier.
C25_VerifiedOnlyFromNeedsReview ==
  (last.by = "patch" /\ last.applied)
    => /\ last.from = "NEEDS_REVIEW"
       /\ doc.status = "VERIFIED"
       /\ doc.verifiedByUserId = last.req.user_id

\* The identity, the owner and the source file of a record.
Identity(record) == [f \in IdentityFields |-> record[f]]

\* C26: whatever ingest requests, worker invocations and PATCH requests have
\* run, the document has the tenantId, policyId, userId, s3KeyOriginal,
\* contentType and fileSizeBytes it was created with.
C26_IdentityAndSourceNeverChange == Identity(doc) = Identity(NewDocument)

\* A PATCH whose body named the identity and source attributes was applied
\* and changed the insurer only.
C26_Witness ==
  /\ last.by = "patch" /\ last.applied
  /\ IdentityFields \subseteq last.body.set
  /\ doc.fields = ReviewerFields /\ doc.status = "VERIFIED"
  /\ last.from \in {"EXTRACTED", "NEEDS_REVIEW"}

\* C27: a request with a content type outside application/pdf, image/png,
\* image/jpeg, with a size above 20 MiB or with a size of 0 or less is
\* answered 400 and no record is written; any other request writes exactly
\* one record, CREATED, retryCount 0, owned by the caller.
C27_UploadCreatesOnlyAfterValidation ==
  (call.fn = "post_upload_url" /\ call.returned)
    => IF \/ call.content_type
               \notin {"application/pdf", "image/png", "image/jpeg"}
          \/ call.file_size > 20 * 1024 * 1024
          \/ call.file_size <= 0
         THEN call.resp = 400 /\ call.puts = 0 /\ doc = NoDocument
         ELSE /\ call.resp = 200 /\ call.puts = 1
              /\ doc.status = "CREATED" /\ doc.retryCount = 0
              /\ doc.userId = call.user_id

\* A PNG of exactly 20 MiB was accepted for the second user.
C27_Witness ==
  /\ call.fn = "post_upload_url" /\ call.returned
  /\ call.content_type = "image/png" /\ call.file_size = 20 * 1024 * 1024
  /\ call.user_id = "other"
  /\ doc.status = "CREATED" /\ doc.userId = "other"

\* C28: an upsert with the sourcePolicyId of an earlier upsert creates
\* nothing, returns the client the first one returned as matched on
\* sourcePolicyId, and leaves the Clients table and the policy as they were.
C28_LaterUpsertReturnsFirstClient ==
  (call.fn = "upsert_client" /\ call.source # "" /\ call.earlier # NoClient)
    => /\ ~call.created
       /\ call.matched = "sourcePolicyId"
       /\ call.client = call.earlier
       /\ clients = call.before.clients
       /\ doc = call.before.doc

\* C29: a link request for a pair, made right after a request for the same
\* pair was answered 200, is answered 200 too and leaves the policy's
\* clientId and the client's policyCount as the first request left them.
C29_SecondLinkChangesNothing ==
  (call.fn = "link_policy" /\ call.second)
    => /\ call.resp = 200
       /\ call.left = call.prior
       /\ call.left.clientId = call.client

\* The second request for a pair was answered; the first had linked the
\* policy and counted it.
C29_Witness ==
  /\ call.fn = "link_policy" /\ call.second /\ call.resp = 200
  /\ call.prior.clientId = call.client /\ call.prior.policyCount = 1
  /\ doc.clientId = call.client
  /\ clients[call.client].policyCount = 1

\* C30: under weak fairness of the deliveries and the worker steps, a
\* document that is UPLOADED is eventually FAILED, EXTRACTED or NEEDS_REVIEW.
C30_UploadedEventuallySettles ==
  (doc.status = "UPLOADED")
    ~> (doc.status \in {"FAILED", "EXTRACTED", "NEEDS_REVIEW"})

\* C31: a record in the store always has the owner it was created with; no
\* worker write after a deletion leaves a record without one.
C31_NoRecordWithoutOwner ==
  doc.exists => (doc.userId = "owner" /\ doc.status # "ABSENT")

\* The ingest writes that took the document from FAILED back to UPLOADED:
\* every applied ingest write but the first, which found CREATED.
IngestRetriesApplied == IF counts.applied > 0 THEN counts.applied - 1 ELSE 0

\* C32: retryCount is at most the retry budget plus the number of ingest
\* retries applied to the document.
C32_RetryCountWithinBudget ==
  doc.retryCount <= RetryBudget + IngestRetriesApplied

\* C33: the extract worker's FAILED write and its retry write (UPLOADED,
\* retryCount + 1) come only from an invocation whose start call was refused:
\* none whose start call returned a job id.
C33_FailureWritesOnlyAfterRefusedStart ==
  (last.by = "extract" /\ last.op \in {"failed", "retry"})
    => last.job = NoJob

\* C34: textractJobId names a started job, and the write that records a job
\* id finds none recorded.
C34_JobIdSetOnce ==
  /\ doc.textractJobId # NoJob => doc.textractJobId \in 1..Len(jobs)
  /\ (last.by = "extract" /\ last.op = "record" /\ last.applied)
       => last.before.textractJobId = NoJob

\* C35: a document with a lastError is FAILED.
C35_LastErrorOnlyOnFailed == doc.lastError # NoError => doc.status = "FAILED"

\* C36: with no link request half done, the policyCount of every client is
\* the number of policies linked to it (of the one policy of the model: 1
\* for the client it is linked to, 0 for the others).
C36_PolicyCountIsLinkedPolicies ==
  (\A k \in 1..NLink : lk[k].pc = "idle")
    => \A c \in ClientIds :
         clients[c].exists
           => clients[c].policyCount = IF doc.clientId = c THEN 1 ELSE 0

\* The latest step is a parse worker invocation that returned because the job
\* tag was empty or named no record.
ParseDropped == last.by = "parse" /\ last.code = "drop"

\* C37: a notification with an empty job tag, or with the tag of no stored
\* record, makes the parse worker return normally with nothing written and
\* nothing called; only an invocation that found the record under its tag
\* goes on.
C37_UnresolvedNotificationIsDropped ==
  /\ ParseDropped
       => /\ last.req.policy_id = "" \/ last.req.policy_id # "policy"
             \/ ~last.before.exists
          /\ last.returned /\ ~last.raised
          /\ ~last.wrote /\ ~last.called
          /\ doc = last.before
  /\ \A p \in 1..NParse : pw[p].pc # "idle" => pw[p].tag = "policy"

\* The notification of a started job arrived after the record was deleted
\* and was dropped.
C37_Witness ==
  /\ ParseDropped /\ last.req.policy_id = "policy"
  /\ ~doc.exists /\ Len(jobs) = 1

\* ------------------------------------- extractor: the three paths of a field
\* The fields of FIELD_PATTERNS that have a "regex", and the "default" of a
\* field ("" where it has none).
RegexFields == {"policyNumber", "startDate", "endDate", "premiumTotal"}

default_of(field) == IF field = "currency" THEN "MXN" ELSE ""

\* The confidence _match_regex gives a match that no line contains.
HalfConfidence == 50000

\* Most key-value pairs and most lines in the blocks of a call.
MaxKv == 2
MaxLines == 2

\* The values of key-value pairs (a value of blanks strips to nothing) and the
\* confidences of key-value pairs and of lines.
KvValues == {"", "  ", " value "}
BlockConfidences == {74996, 95000}

strip(value) ==
  IF value = "  " THEN "" ELSE IF value = " value " THEN "value" ELSE value

\* No result of _match_kv or _match_regex (None).
NoResult == <<>>

SeqsUpTo(S, n) == UNION {[1..k -> S] : k \in 0..n}

\* What build_structures hands to the paths for one field: kv_map holds the
\* pairs whose key contains a key phrase of the field, in the order of the
\* map; found says whether the regex of the field matches the joined text;
\* a line says whether it contains the matched text.  No regex of
\* FIELD_PATTERNS matches a blank, so a match lies within one line; blocks in
\* which no line contains the match are kept, for the branch of the code that
\* handles them.
BlocksOf(field) ==
  {b \in [field : {field},
          kv_map : SeqsUpTo([value : KvValues, conf : BlockConfidences], MaxKv),
          lines : SeqsUpTo([contains : BOOLEAN, conf : BlockConfidences],
                           MaxLines),
          found : BOOLEAN] :
     b.found \/ \A k \in 1..Len(b.lines) : ~b.lines[k].contains}

RECURSIVE match_kv(_)
\* _match_kv: the first pair of the map with a value that is not blank.
match_kv(kv_map) ==
  IF kv_map = <<>> THEN NoResult
  ELSE IF strip(Head(kv_map).value) # ""
         THEN <<strip(Head(kv_map).value), Head(kv_map).conf>>
         ELSE match_kv(Tail(kv_map))

RECURSIVE line_confidence(_)
\* The loop of _match_regex over the lines: the confidence of the first line
\* that contains the matched text, 0.5 after the loop.
line_confidence(lines) ==
  IF lines = <<>> THEN HalfConfidence
  ELSE IF Head(lines).contains THEN Head(lines).conf
       ELSE line_confidence(Tail(lines))

\* _match_regex.
match_regex(field, lines, found) ==
  IF field \notin RegexFields THEN NoResult
  ELSE IF found THEN <<"matched_text", line_confidence(lines)>>
       ELSE NoResult

\* The same with the paths taken in the other order: the regex before the
\* key-value pairs.
field_paths_regex_first(blocks) ==
  LET kv_result == match_kv(blocks.kv_map)
      regex_result == match_regex(blocks.field, blocks.lines, blocks.found)
  IN IF regex_result # NoResult THEN regex_result
     ELSE IF kv_result # NoResult THEN kv_result
     ELSE IF default_of(blocks.field) # ""
            THEN <<default_of(blocks.field), FullConfidence>>
            ELSE <<"", 0>>

\* Steps 1 to 3 of the loop body of extract_fields: value and confidence of
\* the field before "if value".
field_paths(blocks) ==
  LET kv_result == match_kv(blocks.kv_map)
      step1 == IF kv_result # NoResult THEN kv_result ELSE <<"", 0>>
      regex_result == match_regex(blocks.field, blocks.lines, blocks.found)
      step2 == IF step1[1] = "" /\ regex_result # NoResult
                 THEN regex_result ELSE step1
      step3 == IF step2[1] = "" /\ default_of(blocks.field) # ""
                 THEN <<default_of(blocks.field), FullConfidence>> ELSE step2
  IN step3

\* What extract_fields returns of the field: its entry in the result and its
\* entry in fieldConfidence, both only "if value".
extract_field(blocks) ==
  LET r == field_paths(blocks)
      present == IF r[1] # "" THEN {blocks.field} ELSE {}
  IN [fields |-> [f \in present |-> r[1]],
      fieldConfidence |-> [f \in present |-> Round4(r[2])]]

InitExtract ==
  /\ doc = NewDocument
  /\ published = 0
  /\ jobs = <<>>
  /\ ew = [e \in 1..NExtract |-> IdleExtract]
  /\ pw = [p \in 1..NParse |-> IdleParse]
  /\ ing = [i \in 1..NIngest |-> IdleIngest]
  /\ budget = [ingest |-> 0, extract |-> 0, parse |-> 0, patch |-> 0,
               jobs |-> 0, failures |-> 0]
  /\ counts = [startFailures |-> 0, transient |-> 0, applied |-> 0, patches |-> 0,
               unlinks |-> 0, links |-> 0, upserts |-> 0]
  /\ last = Quiet
  /\ CONFIDENCE_THRESHOLD = DefaultThreshold
  /\ clients = [c \in ClientIds |-> NoClientRecord]
  /\ lk = [k \in 1..NLink |-> IdleLink]
  /\ \E field \in FieldNames : \E blocks \in BlocksOf(field) :
       call = [fn |-> "extract_fields", blocks |-> blocks, returned |-> FALSE,
               result |-> [fields |-> <<>>, fieldConfidence |-> <<>>]]

\* extract_fields is called on the blocks and returns.
extract_fields_call ==
  /\ call.fn = "extract_fields"
  /\ ~call.returned
  /\ call' = [call EXCEPT !.returned = TRUE,
                          !.result = extract_field(call.blocks)]
  /\ UNCHANGED <<doc, published, jobs, ew, pw, ing, budget, counts, last,
                 CONFIDENCE_THRESHOLD, clients, lk>>

NextExtract == extract_fields_call

SpecExtract == InitExtract /\ [][NextExtract]_vars

\* The pairs of the map that give a value, and the lines that contain the
\* matched text.
KvHits(blocks) ==
  {k \in 1..Len(blocks.kv_map) : blocks.kv_map[k].value \notin {"", "  "}}

LineHits(blocks) ==
  {k \in 1..Len(blocks.lines) : blocks.lines[k].contains}

First(S) == CHOOSE k \in S : \A j \in S : k <= j

\* C38: the value of a field is that of the first key-value pair with a value
\* that is not blank; without one, and for a field with a regex that matches,
\* the matched text with the confidence of the first line that contains it,
\* 0.5 if no line does; without either, the default of the field at 1.0
\* (currency: MXN); and the field is in the result and in fieldConfidence
\* exactly when one of the three gave a value.
C38_FirstPathWithValue ==
  (call.fn = "extract_fields" /\ call.returned) =>
    LET b == call.blocks
        f == b.field
        out == call.result
        Is(value, conf) ==
          /\ DOMAIN out.fields = {f}
          /\ DOMAIN out.fieldConfidence = {f}
          /\ out.fields[f] = value
          /\ out.fieldConfidence[f] = Round4(conf)
    IN IF KvHits(b) # {}
         THEN Is("value", b.kv_map[First(KvHits(b))].conf)
       ELSE IF f \in RegexFields /\ b.found
         THEN IF LineHits(b) # {}
                THEN Is("matched_text", b.lines[First(LineHits(b))].conf)
                ELSE Is("matched_text", HalfConfidence)
       ELSE IF f = "currency"
         THEN Is("MXN", FullConfidence)
       ELSE DOMAIN out.fields = {} /\ DOMAIN out.fieldConfidence = {}

\* A field whose first pair is blank and whose second has a value, while its
\* regex matches too: the value of the second pair is returned.
C38_Witness ==
  /\ call.fn = "extract_fields"
  /\ call.returned
  /\ call.blocks.field = "policyNumber"
  /\ call.blocks.found
  /\ Len(call.blocks.kv_map) = 2
  /\ call.blocks.kv_map[1].value = "  "
  /\ call.blocks.kv_map[2].value = " value "
  /\ call.result.fields["policyNumber"] = "value"

\* --------------------------------------- claude_extractor: extract_fields
\* REQUIRED_FIELDS of claude_extractor.
CLAUDE_REQUIRED_FIELDS ==
  <<"policyNumber", "insuredName", "policyType", "insurer", "startDate",
    "endDate">>

\* The fields SYSTEM_PROMPT asks for, in the order of its JSON object.
PromptFields ==
  <<"policyNumber", "insuredName", "policyType", "insurer", "startDate",
    "endDate", "premiumTotal", "currency", "rfc">>

\* What the parsed response holds for a field under "fields" (no key, null,
\* a value) and under "confidence" (no key, or a number).
FieldStates == {"absent", "null", "value"}
ReportedConfidences == {Absent, 40000, 95000}

\* What a response holds for one field.
Answers == [state : FieldStates, conf : ReportedConfidences]

CleanAnswer == [state |-> "value", conf |-> 95000]

\* The response that answers field a with x, field b with y and every other
\* field with a value of high confidence.
ResponseWith(a, x, b, y) ==
  LET answer(f) == IF f = a THEN x ELSE IF f = b THEN y ELSE CleanAnswer
  IN [fields |-> [f \in Range(PromptFields) |-> answer(f).state],
      confidence |-> [f \in Range(PromptFields) |-> answer(f).conf]]

\* The parsed responses of the model: all but two fields are returned with a
\* value and a high confidence.
Responses ==
  {ResponseWith(a, x, b, y) :
     a \in Range(PromptFields), x \in Answers,
     b \in Range(PromptFields), y \in Answers}

\* The same with a missing confidence read as 1.0.
reported_confidence_full(response, field_name) ==
  IF response.confidence[field_name] = Absent THEN FullConfidence
  ELSE response.confidence[field_name]

\* float(confidence.get(field_name, 0.0)).
reported_confidence(response, field_name) ==
  IF response.confidence[field_name] = Absent THEN 0
  ELSE response.confidence[field_name]

RECURSIVE fields_loop(_, _, _, _)
\* The loop over fields.items(): the keys of the response in its order, with
\* the result, field_confidence and needs_review_fields so far in acc.
fields_loop(response, threshold, keys, acc) ==
  IF keys = <<>> THEN acc
  ELSE LET field_name == Head(keys)
           conf == reported_confidence(response, field_name)
           next ==
             IF response.fields[field_name] = "value"
               THEN [result |-> acc.result \cup {field_name},
                     fieldConfidence |->
                       [f \in DOMAIN acc.fieldConfidence \cup {field_name} |->
                          IF f = field_name THEN Round4(conf)
                          ELSE acc.fieldConfidence[f]],
                     needsReviewFields |->
                       IF conf < threshold
                         THEN Append(acc.needsReviewFields, field_name)
                         ELSE acc.needsReviewFields]
               ELSE acc
       IN fields_loop(response, threshold, Tail(keys), next)

RECURSIVE required_loop(_, _)
\* The loop over REQUIRED_FIELDS.
required_loop(reqs, acc) ==
  IF reqs = <<>> THEN acc
  ELSE LET req == Head(reqs)
           next ==
             IF req \notin acc.result /\ req \notin Range(acc.needsReviewFields)
               THEN [acc EXCEPT !.needsReviewFields = Append(@, req)]
               ELSE acc
       IN required_loop(Tail(reqs), next)

\* extract_fields of claude_extractor from the parsed response on: the keys
\* of the result, fieldConfidence and needsReviewFields.
claude_extract_fields(response, threshold) ==
  required_loop(
    CLAUDE_REQUIRED_FIELDS,
    fields_loop(response, threshold,
                SelectSeq(PromptFields,
                          LAMBDA f : response.fields[f] # "absent"),
                [result |-> {}, fieldConfidence |-> <<>>,
                 needsReviewFields |-> <<>>]))

InitClaude ==
  /\ doc = NewDocument
  /\ published = 0
  /\ jobs = <<>>
  /\ ew = [e \in 1..NExtract |-> IdleExtract]
  /\ pw = [p \in 1..NParse |-> IdleParse]
  /\ ing = [i \in 1..NIngest |-> IdleIngest]
  /\ budget = [ingest |-> 0, extract |-> 0, parse |-> 0, patch |-> 0,
               jobs |-> 0, failures |-> 0]
  /\ counts = [startFailures |-> 0, transient |-> 0, applied |-> 0, patches |-> 0,
               unlinks |-> 0, links |-> 0, upserts |-> 0]
  /\ last = Quiet
  /\ CONFIDENCE_THRESHOLD \in Thresholds
  /\ clients = [c \in ClientIds |-> NoClientRecord]
  /\ lk = [k \in 1..NLink |-> IdleLink]
  /\ \E response \in Responses :
       call = [fn |-> "claude_extract_fields", response |-> response,
               returned |-> FALSE,
               result |-> [result |-> {}, fieldConfidence |-> <<>>,
                           needsReviewFields |-> <<>>]]

\* The response of the model is parsed and extract_fields returns.
claude_extract_fields_call ==
  /\ call.fn = "claude_extract_fields"
  /\ ~call.returned
  /\ call' = [call EXCEPT
                !.returned = TRUE,
                !.result = claude_extract_fields(call.response,
                                                 CONFIDENCE_THRESHOLD)]
  /\ UNCHANGED <<doc, published, jobs, ew, pw, ing, budget, counts, last,
                 CONFIDENCE_THRESHOLD, clients, lk>>

NextClaude == claude_extract_fields_call

SpecClaude == InitClaude /\ [][NextClaude]_vars

\* How often a field is in a list.
Occurrences(s, x) == Cardinality({k \in 1..Len(s) : s[k] = x})

\* C39: a required field that the response leaves out or returns as null is
\* in needsReviewFields exactly once, with or without a reported confidence;
\* a field returned with a value and without a confidence has confidence 0.0
\* in fieldConfidence and is in needsReviewFields.
C39_MissingAndUnratedAreFlagged ==
  (call.fn = "claude_extract_fields" /\ call.returned) =>
    /\ \A f \in Range(CLAUDE_REQUIRED_FIELDS) :
         call.response.fields[f] \in {"absent", "null"} =>
           Occurrences(call.result.needsReviewFields, f) = 1
    /\ \A f \in Range(PromptFields) :
         (call.response.fields[f] = "value"
          /\ call.response.confidence[f] = Absent) =>
           /\ f \in DOMAIN call.result.fieldConfidence
           /\ call.result.fieldConfidence[f] = 0
           /\ Occurrences(call.result.needsReviewFields, f) = 1

\* A response with policyType null under a reported confidence and insurer
\* returned without a confidence: both are flagged.
C39_Witness ==
  /\ call.fn = "claude_extract_fields"
  /\ call.returned
  /\ call.response.fields["policyType"] = "null"
  /\ call.response.confidence["policyType"] = 95000
  /\ call.response.fields["insurer"] = "value"
  /\ call.response.confidence["insurer"] = Absent
  /\ call.result.needsReviewFields = <<"insurer", "policyType">>

\* ------------------------------------------- claude_extractor: get_api_key
\* _cached_api_key before a fetch succeeded (None).
NoKey == "None"

\* The values the parameter takes in the parameter store, and the values of
\* the ANTHROPIC_API_KEY_PARAM environment variable ("" when it is not set).
ParameterValues == {"key-1", "key-2"}
ParamNames == {"", "/anthropic/api-key"}

\* Most calls of get_api_key in one process, and most processes.
MaxKeyCalls == 5
MaxProcesses == 2

\* The same without the look at the cache.
cache_hit_never(cached_api_key) == FALSE

\* "if _cached_api_key is not None".
cache_hit(cached_api_key) == cached_api_key # NoKey

\* A process after its module was loaded: nothing cached, no call made.
\* before, read, returned and raised describe the latest call.
InitKey ==
  /\ doc = NewDocument
  /\ published = 0
  /\ jobs = <<>>
  /\ ew = [e \in 1..NExtract |-> IdleExtract]
  /\ pw = [p \in 1..NParse |-> IdleParse]
  /\ ing = [i \in 1..NIngest |-> IdleIngest]
  /\ budget = [ingest |-> 0, extract |-> 0, parse |-> 0, patch |-> 0,
               jobs |-> 0, failures |-> 0]
  /\ counts = [startFailures |-> 0, transient |-> 0, applied |-> 0, patches |-> 0,
               unlinks |-> 0, links |-> 0, upserts |-> 0]
  /\ last = Quiet
  /\ CONFIDENCE_THRESHOLD = DefaultThreshold
  /\ clients = [c \in ClientIds |-> NoClientRecord]
  /\ lk = [k \in 1..NLink |-> IdleLink]
  /\ \E param_name \in ParamNames, parameter \in ParameterValues :
       call = [fn |-> "get_api_key", process |-> 1,
               param_name |-> param_name,
               parameter |-> parameter, cached_api_key |-> NoKey,
               calls |-> 0, reads |-> 0, fetched |-> 0, failures |-> 0,
               before |-> NoKey, read |-> FALSE, returned |-> NoKey,
               raised |-> ""]

KeyCall ==
  /\ call.fn = "get_api_key"
  /\ call.calls < MaxKeyCalls

\* get_api_key with a cached value: it is returned.
get_api_key_cached ==
  /\ KeyCall
  /\ cache_hit(call.cached_api_key)
  /\ call' = [call EXCEPT !.calls = @ + 1,
                          !.before = call.cached_api_key,
                          !.read = FALSE,
                          !.returned = call.cached_api_key,
                          !.raised = ""]
  /\ UNCHANGED <<doc, published, jobs, ew, pw, ing, budget, counts, last,
                 CONFIDENCE_THRESHOLD, clients, lk>>

\* get_api_key without a cached value and without the environment variable:
\* ValueError.
get_api_key_no_param ==
  /\ KeyCall
  /\ ~cache_hit(call.cached_api_key)
  /\ call.param_name = ""
  /\ call' = [call EXCEPT !.calls = @ + 1,
                          !.before = call.cached_api_key,
                          !.read = FALSE,
                          !.returned = NoKey,
                          !.raised = "ValueError"]
  /\ UNCHANGED <<doc, published, jobs, ew, pw, ing, budget, counts, last,
                 CONFIDENCE_THRESHOLD, clients, lk>>

\* get_api_key without a cached value: get_parameter answers, the value is
\* cached and returned.
get_api_key_fetch ==
  /\ KeyCall
  /\ ~cache_hit(call.cached_api_key)
  /\ call.param_name # ""
  /\ call' = [call EXCEPT !.calls = @ + 1,
                          !.reads = @ + 1,
                          !.fetched = @ + 1,
                          !.before = call.cached_api_key,
                          !.read = TRUE,
                          !.cached_api_key = call.parameter,
                          !.returned = call.parameter,
                          !.raised = ""]
  /\ UNCHANGED <<doc, published, jobs, ew, pw, ing, budget, counts, last,
                 CONFIDENCE_THRESHOLD, clients, lk>>

\* get_api_key without a cached value: get_parameter raises, and so does
\* get_api_key, before the assignment to _cached_api_key.
get_api_key_fetch_error ==
  /\ KeyCall
  /\ ~cache_hit(call.cached_api_key)
  /\ call.param_name # ""
  /\ call' = [call EXCEPT !.calls = @ + 1,
                          !.reads = @ + 1,
                          !.failures = @ + 1,
                          !.before = call.cached_api_key,
                          !.read = TRUE,
                          !.returned = NoKey,
                          !.raised = "ClientError"]
  /\ UNCHANGED <<doc, published, jobs, ew, pw, ing, budget, counts, last,
                 CONFIDENCE_THRESHOLD, clients, lk>>

\* The parameter is given another value in the parameter store.
parameter_rotated ==
  /\ call.fn = "get_api_key"
  /\ \E parameter \in ParameterValues \ {call.parameter} :
       call' = [call EXCEPT !.parameter = parameter]
  /\ UNCHANGED <<doc, published, jobs, ew, pw, ing, budget, counts, last,
                 CONFIDENCE_THRESHOLD, clients, lk>>

\* A new process is started: the module is loaded again, with
\* _cached_api_key = None.
cold_start ==
  /\ call.fn = "get_api_key"
  /\ call.process < MaxProcesses
  /\ call' = [call EXCEPT !.process = @ + 1,
                          !.cached_api_key = NoKey,
                          !.calls = 0, !.reads = 0, !.fetched = 0,
                          !.failures = 0,
                          !.before = NoKey, !.read = FALSE,
                          !.returned = NoKey, !.raised = ""]
  /\ UNCHANGED <<doc, published, jobs, ew, pw, ing, budget, counts, last,
                 CONFIDENCE_THRESHOLD, clients, lk>>

NextKey ==
  \/ cold_start
  \/ get_api_key_cached
  \/ get_api_key_no_param
  \/ get_api_key_fetch
  \/ get_api_key_fetch_error
  \/ parameter_rotated

SpecKey == InitKey /\ [][NextKey]_vars

\* C40: in one process the parameter store answers at most one read; a call
\* made with a cached value does not read the store and returns that value;
\* a call that raised left the cache as it was, so a value is cached only
\* after a fetch that succeeded.
C40_KeyFetchedOncePerProcess ==
  call.fn = "get_api_key" =>
    /\ call.fetched <= 1
    /\ (call.cached_api_key # NoKey) <=> (call.fetched = 1)
    /\ (call.calls > 0 /\ call.before # NoKey) =>
         /\ ~call.read
         /\ call.raised = ""
         /\ call.returned = call.before
         /\ call.cached_api_key = call.before
    /\ call.raised # "" => call.cached_api_key = call.before

\* In a second process, after a fetch that failed and one that succeeded, a
\* call is answered from the cache although the parameter has another value
\* by now.
C40_Witness ==
  /\ call.fn = "get_api_key"
  /\ call.process = 2
  /\ call.failures >= 1
  /\ call.fetched = 1
  /\ call.before # NoKey
  /\ ~call.read
  /\ call.returned = call.cached_api_key
  /\ call.parameter # call.cached_api_key
====
